---- MODULE Spec2Model ----
(***************************************************************************)
(* Verification model of the review collector (src/scrayping/collector).   *)
(*                                                                         *)
(* Spec     : the persistence gateway (db_handler.py) used by concurrent   *)
(*            pipeline instances against one PostgreSQL store.             *)
(* SpecAgg  : the per-provider aggregators (search_shoe_reviews and its    *)
(*            siblings) run over nondeterministic provider responses.      *)
(* SpecPerm : one aggregator run over the query variants in two orders.    *)
(* SpecVideo: the video aggregator on up to six raw items.                 *)
(* SpecAdapter: single calls of the provider adapters over provider-side   *)
(*            outcomes.                                                    *)
(* SpecWeb  : the web-search adapters and the URL extractors.              *)
(* SpecQuery: the query formulation of the aggregators.                    *)
(* SpecRead : the listing of the sources of a shoe.                        *)
(* SpecRun  : the collection commands of main.py, run one after another.   *)
(* SpecCmd  : one collection command, statement by statement.              *)
(* SpecDb   : the persistence operations, connection by connection.        *)
(* SpecImport: the import of the predefined subjects.                      *)
(***************************************************************************)
EXTENDS Integers, Sequences, FiniteSets, TLC

VARIABLES
    shoes,      \* rows of the shoes table
    sources,    \* rows of the curatedSources table
    nextId,     \* next value of gen_random_uuid(), modelled as a fresh number
    pc,         \* per pipeline instance: position inside the running operation
    cur,        \* per pipeline instance: arguments and locals of the running operation
    log,        \* history: completed persistence calls, in completion order
    agg,        \* state of one aggregator run (SpecAgg)
    fn,         \* one call of an aggregator, adapter or function: inputs and result
    run         \* state of the collection commands of main.py (SpecRun)

vars == <<shoes, sources, nextId, pc, cur, log, agg, fn, run>>

(***************************************************************************)
(* Bounds                                                                  *)
(***************************************************************************)
MaxCalls == 3       \* persistence calls started in one behaviour

\* Pipeline instances running in parallel against the same store.
Clients == {"A", "B"}

(***************************************************************************)
(* Values                                                                  *)
(***************************************************************************)
None == 0           \* Python None; generated identities start at 1

\* (brand, model name) pairs passed by callers; the first two differ only in case.
Subjects == {<<"Nike", "Peg">>, <<"nike", "peg">>, <<"Asics", "Gel">>}
Urls == {"u1", "u2"}

\* Two source payloads that differ in every descriptive field.
Payloads ==
    { [title |-> "t1", author |-> "a1", excerpt |-> "e1", reliability |-> 8, metadata |-> "m1"],
      [title |-> "t2", author |-> "a2", excerpt |-> "e2", reliability |-> 6, metadata |-> "m2"] }

NoPayload == [title |-> "", author |-> "", excerpt |-> "", reliability |-> 0, metadata |-> ""]

\* SQL LOWER() on the strings of the model.
Lower(s) ==
    CASE s = "Nike" -> "nike"
      [] s = "Asics" -> "asics"
      [] s = "Peg" -> "peg"
      [] s = "Gel" -> "gel"
      [] OTHER -> s

(***************************************************************************)
(* The store: constraints it enforces                                      *)
(***************************************************************************)
\* Uniqueness constraint of the shoes table on the natural key.
ShoesUniqueViolation(sh, brand, model_name) ==
    \E s \in sh : Lower(s.brand) = Lower(brand) /\ Lower(s.modelName) = Lower(model_name)

\* Uniqueness constraint of the curatedSources table on (shoeId, url).
SourcesUniqueViolation_absent(src, shoe_id, url) == FALSE

SourcesUniqueViolation(src, shoe_id, url) ==
    \E r \in src : r.shoeId = shoe_id /\ r.url = url

(***************************************************************************)
(* db_handler.py: statements                                               *)
(***************************************************************************)
\* get_db_connection: a connection, or None when DATABASE_URL is unset or connect() raises.
get_db_connection(reachable) == reachable

\* SELECT ... FROM shoes WHERE LOWER(brand) = LOWER(%s) AND LOWER("modelName") = LOWER(%s)
get_shoe_by_brand_model_exact(sh, brand, model_name) ==
    {s \in sh : s.brand = brand /\ s.modelName = model_name}

get_shoe_by_brand_model(sh, brand, model_name) ==
    {s \in sh : Lower(s.brand) = Lower(brand) /\ Lower(s.modelName) = Lower(model_name)}

\* INSERT INTO shoes (...) VALUES (gen_random_uuid()::text, ...) RETURNING id; commit
insert_shoe_no_commit(sh, id, brand, model_name) == sh

insert_shoe(sh, id, brand, model_name) ==
    sh \cup {[id |-> id, brand |-> brand, modelName |-> model_name]}

\* SELECT id FROM "curatedSources" WHERE url = %s AND "shoeId" = %s
find_source(src, url, shoe_id) ==
    {r \in src : r.url = url /\ r.shoeId = shoe_id}

\* The duplicate branch of create_curated_source: print, return None, write nothing.
on_duplicate_upsert(src, url, shoe_id, pay) ==
    {IF r.url = url /\ r.shoeId = shoe_id
        THEN [r EXCEPT !.title = pay.title, !.author = pay.author,
                       !.excerpt = pay.excerpt, !.reliability = pay.reliability,
                       !.metadata = pay.metadata]
        ELSE r : r \in src}

on_duplicate(src, url, shoe_id, pay) == src

\* INSERT INTO "curatedSources" (...) VALUES (..., 'PUBLISHED', ...) RETURNING id; commit
insert_source_no_commit(src, id, shoe_id, url, pay) == src

insert_source(src, id, shoe_id, url, pay) ==
    src \cup {[id |-> id, shoeId |-> shoe_id, url |-> url,
               title |-> pay.title, author |-> pay.author, excerpt |-> pay.excerpt,
               reliability |-> pay.reliability, metadata |-> pay.metadata,
               status |-> "PUBLISHED"]}

(***************************************************************************)
(* Bookkeeping of calls                                                    *)
(***************************************************************************)
Idle ==
    [op |-> "", brand |-> "", model |-> "", shoe |-> None, url |-> "", pay |-> NoPayload,
     ok |-> TRUE, solo |-> TRUE, raced |-> FALSE, existed |-> FALSE, wrote |-> FALSE,
     diag |-> {}]

Started == Len(log) + Cardinality({p \in Clients : pc[p] # "idle"})

\* The calls of the other instances overlap with one that starts now.
Overlap(p) ==
    [q \in Clients |->
        IF q # p /\ pc[q] # "idle" THEN [cur[q] EXCEPT !.solo = FALSE] ELSE cur[q]]

OthersIdle(p) == \A q \in Clients \ {p} : pc[q] = "idle"

Entry(c, ret) ==
    [op |-> c.op, brand |-> c.brand, model |-> c.model, shoe |-> c.shoe, url |-> c.url,
     pay |-> c.pay, ok |-> c.ok, solo |-> c.solo, raced |-> c.raced,
     existed |-> c.existed, wrote |-> c.wrote, diag |-> c.diag, ret |-> ret]

\* A printed diagnostic: "error" is the cross-mark prefix, "warning" the warning-sign prefix.
Diag(level, op, cause) == [level |-> level, op |-> op, cause |-> cause]

Printed(c, level, op, cause) == [c EXCEPT !.diag = @ \cup {Diag(level, op, cause)}]

(***************************************************************************)
(* Init                                                                    *)
(***************************************************************************)
AggIdle ==
    [pc |-> "off", provider |-> "", max_results |-> 0, qi |-> 0, resp |-> <<>>,
     all |-> <<>>, seen |-> {}, out |-> <<>>]

FnIdle == [op |-> ""]

RunIdle == [pc |-> "off"]

Init ==
    /\ shoes = {}
    /\ sources = {}
    /\ nextId = 1
    /\ pc = [p \in Clients |-> "idle"]
    /\ cur = [p \in Clients |-> Idle]
    /\ log = <<>>
    /\ agg = AggIdle
    /\ fn = FnIdle
    /\ run = RunIdle

(***************************************************************************)
(* Completion of a call: the result goes to the caller                     *)
(***************************************************************************)
Return(p, c, ret, others) ==
    /\ log' = Append(log, Entry(c, ret))
    /\ pc' = [pc EXCEPT ![p] = "idle"]
    /\ cur' = [others EXCEPT ![p] = Idle]

(***************************************************************************)
(* ensure_shoe_exists(brand, model_name)                                   *)
(***************************************************************************)
\* First half: existing = get_shoe_by_brand_model(brand, model_name).
\* reachable: whether this call's connect succeeds.
EnsureLookup(p, brand, model_name, reachable) ==
    /\ pc[p] = "idle"
    /\ Started < MaxCalls
    /\ LET c0 == [Idle EXCEPT !.op = "ensure", !.brand = brand, !.model = model_name,
                              !.solo = OthersIdle(p),
                              !.existed = ShoesUniqueViolation(shoes, brand, model_name)]
           others == Overlap(p)
       IN  IF ~get_db_connection(reachable)
           THEN \* the lookup returns None and the caller goes on to create_shoe
                /\ pc' = [pc EXCEPT ![p] = "create"]
                /\ cur' = [others EXCEPT ![p] =
                             Printed([c0 EXCEPT !.ok = FALSE],
                                     "error", "get_db_connection", "connection")]
                /\ UNCHANGED log
           ELSE LET existing == get_shoe_by_brand_model(shoes, brand, model_name)
                IN  IF existing # {}
                    THEN \E row \in existing : Return(p, c0, row.id, others)
                    ELSE /\ pc' = [pc EXCEPT ![p] = "create"]
                         /\ cur' = [others EXCEPT ![p] = c0]
                         /\ UNCHANGED log
    /\ UNCHANGED <<shoes, sources, nextId, agg, fn, run>>

\* Second half: return create_shoe(brand, model_name, category).
\* fault: the INSERT fails for a reason other than the uniqueness constraint.
EnsureCreate(p, reachable, fault) ==
    /\ pc[p] = "create"
    /\ LET c == cur[p]
       IN  IF ~get_db_connection(reachable)
           THEN /\ Return(p, Printed([c EXCEPT !.ok = FALSE],
                                     "error", "get_db_connection", "connection"), None, cur)
                /\ UNCHANGED <<shoes, nextId>>
           ELSE IF fault
           THEN /\ Return(p, Printed([c EXCEPT !.ok = FALSE],
                                     "error", "create_shoe", "failure"), None, cur)
                /\ UNCHANGED <<shoes, nextId>>
           ELSE IF ShoesUniqueViolation(shoes, c.brand, c.model)
           THEN \* except psycopg2.errors.UniqueViolation
                /\ Return(p, Printed([c EXCEPT !.raced = TRUE],
                                     "warning", "create_shoe", "unique_violation"), None, cur)
                /\ UNCHANGED <<shoes, nextId>>
           ELSE /\ shoes' = insert_shoe(shoes, nextId, c.brand, c.model)
                /\ nextId' = nextId + 1
                /\ Return(p, [c EXCEPT !.wrote = TRUE], nextId, cur)
    /\ UNCHANGED <<sources, agg, fn, run>>

(***************************************************************************)
(* create_curated_source(shoe_id, ..., url, ...)                           *)
(***************************************************************************)
\* Connect and run the duplicate check.
CcsCheck(p, shoe_id, url, pay, reachable) ==
    /\ pc[p] = "idle"
    /\ Started < MaxCalls
    /\ LET c0 == [Idle EXCEPT !.op = "ccs", !.shoe = shoe_id, !.url = url, !.pay = pay,
                              !.solo = OthersIdle(p),
                              !.existed = SourcesUniqueViolation(sources, shoe_id, url)]
           others == Overlap(p)
       IN  IF ~get_db_connection(reachable)
           THEN /\ Return(p, Printed([c0 EXCEPT !.ok = FALSE],
                                     "error", "get_db_connection", "connection"), None, others)
                /\ UNCHANGED sources
           ELSE IF find_source(sources, url, shoe_id) # {}
           THEN /\ sources' = on_duplicate(sources, url, shoe_id, pay)
                /\ Return(p, Printed(c0, "warning", "create_curated_source", "duplicate"),
                          None, others)
           ELSE /\ pc' = [pc EXCEPT ![p] = "insert"]
                /\ cur' = [others EXCEPT ![p] = c0]
                /\ UNCHANGED <<log, sources>>
    /\ UNCHANGED <<shoes, nextId, agg, fn, run>>

\* INSERT ... RETURNING id; commit.  Any exception: rollback, print, return None.
CcsInsert(p, fault) ==
    /\ pc[p] = "insert"
    /\ LET c == cur[p]
       IN  IF fault
           THEN /\ Return(p, Printed([c EXCEPT !.ok = FALSE],
                                     "error", "create_curated_source", "failure"), None, cur)
                /\ UNCHANGED <<sources, nextId>>
           ELSE IF SourcesUniqueViolation(sources, c.shoe, c.url)
           THEN \* psycopg2.errors.UniqueViolation, caught by "except Exception"
                /\ Return(p, Printed([c EXCEPT !.raced = TRUE],
                                     "error", "create_curated_source", "unique_violation"),
                          None, cur)
                /\ UNCHANGED <<sources, nextId>>
           ELSE /\ sources' = insert_source(sources, nextId, c.shoe, c.url, c.pay)
                /\ nextId' = nextId + 1
                /\ Return(p, [c EXCEPT !.wrote = TRUE], nextId, cur)
    /\ UNCHANGED <<shoes, agg, fn, run>>

\* Callers take shoe identities from rows read from the store.
ShoeIds == {s.id : s \in shoes}

Next ==
    \/ \E p \in Clients, s \in Subjects, r \in BOOLEAN : EnsureLookup(p, s[1], s[2], r)
    \/ \E p \in Clients, r \in BOOLEAN, f \in BOOLEAN : EnsureCreate(p, r, f)
    \/ \E p \in Clients, s \in ShoeIds, u \in Urls, pay \in Payloads, r \in BOOLEAN :
           CcsCheck(p, s, u, pay, r)
    \/ \E p \in Clients, f \in BOOLEAN : CcsInsert(p, f)

Spec == Init /\ [][Next]_vars

(***************************************************************************)
(* Aggregators: search_shoe_reviews (video), search_shoe_reviews_twitter,  *)
(* search_shoe_reviews_reddit, search_shoe_reviews_social (web search)     *)
(***************************************************************************)
MaxResults == 3     \* largest max_results passed to an aggregator
MaxResp == 2        \* most records one provider call returns in the model

NoMetric == 0 - 1   \* view_count = None (no statistics); SocialPost has no metric

Providers == {"youtube", "twitter", "reddit", "web_twitter", "web_reddit"}

\* Natural keys: video_id, tweet_id, post_id, or the URL of a SocialPost.
Keys == {"k1", "k2", "k3"}

\* The query variants of each aggregator (the suffix after "brand model"):
\* "rebyu" and "haitemita" stand for the two Japanese suffixes.
Queries_bare_everywhere(provider) ==
    CASE provider = "youtube" -> <<"", "review", "haitemita">>
      [] OTHER                -> <<"", "review">>

Queries(provider) ==
    CASE provider = "youtube" -> <<"rebyu", "review", "haitemita">>
      [] provider = "twitter" -> <<"rebyu", "haitemita", "review">>
      [] provider = "reddit"  -> <<"", "review">>
      [] OTHER                -> <<"rebyu", "review">>

Budget_whole(provider, max_results) == max_results

\* max_results handed to the adapter for one query variant.
Budget(provider, max_results) ==
    CASE provider = "youtube" -> IF max_results \div 2 < 50 THEN max_results \div 2 ELSE 50
      [] provider = "twitter" -> IF max_results \div 2 < 100 THEN max_results \div 2 ELSE 100
      [] OTHER                -> max_results

\* Values of the popularity field of a record an adapter returns.
Metrics(provider) ==
    CASE provider = "youtube" -> {NoMetric, 0, 1}
      [] provider = "twitter" -> {0, 1, 2}
      [] provider = "reddit"  -> {0, 1, 2}
      [] OTHER                -> {NoMetric}

\* lambda v: v.view_count or 0
view_key_none_last(v) == v.metric

view_key(v) == IF v.metric = NoMetric THEN 0 ELSE v.metric

\* lambda t: t.like_count / lambda p: p.score
count_key(v) == v.metric

Min2(a, b) == IF a < b THEN a ELSE b

NonIncreasing(ks) == \A i \in 1..(Len(ks) - 1) : ks[i] >= ks[i + 1]

\* What one adapter call can return for a query variant q: at most the budget,
\* one record per natural key; search_tweets and search_reddit_posts return
\* their records sorted by like_count / score, descending.
ResponsesOver(provider, max_results, q, keys, metrics) ==
    LET n == Min2(Budget(provider, max_results), MaxResp)
        R == [key : keys, metric : metrics, variant : {q}]
        S == UNION {[1..k -> R] : k \in 0..n}
    IN  {r \in S :
            /\ \A i, j \in 1..Len(r) : i # j => r[i].key # r[j].key
            /\ provider \in {"twitter", "reddit"} =>
                   NonIncreasing([i \in 1..Len(r) |-> r[i].metric])}

Responses(provider, max_results, q) ==
    ResponsesOver(provider, max_results, q, Keys, Metrics(provider))

\* for video in videos: if video.video_id not in seen_ids: add, append
RECURSIVE merge_last_wins(_, _)
merge_last_wins(acc, videos) ==
    IF videos = <<>> THEN acc
    ELSE LET v == Head(videos)
         IN  merge_last_wins(
                 IF v.key \in acc.seen
                 THEN [acc EXCEPT !.all = [i \in 1..Len(acc.all) |->
                                              IF acc.all[i].key = v.key THEN v ELSE acc.all[i]]]
                 ELSE [all |-> Append(acc.all, v), seen |-> acc.seen \cup {v.key}],
                 Tail(videos))

RECURSIVE merge_no_dedup(_, _)
merge_no_dedup(acc, videos) ==
    IF videos = <<>> THEN acc
    ELSE merge_no_dedup([all |-> Append(acc.all, Head(videos)),
                         seen |-> acc.seen \cup {Head(videos).key}],
                        Tail(videos))

RECURSIVE merge(_, _)
merge(acc, videos) ==
    IF videos = <<>> THEN acc
    ELSE LET v == Head(videos)
         IN  merge(IF v.key \in acc.seen
                   THEN acc
                   ELSE [all |-> Append(acc.all, v), seen |-> acc.seen \cup {v.key}],
                   Tail(videos))

\* list.sort(key=..., reverse=True) on the keys ks: the order of the indices.
\* The sort is stable: equal keys keep their order, also with reverse=True.
RECURSIVE InsertUnstable(_, _, _, _)
InsertUnstable(perm, i, ks, at) ==
    IF at > Len(perm) THEN Append(perm, i)
    ELSE IF ks[perm[at]] <= ks[i]
         THEN SubSeq(perm, 1, at - 1) \o <<i>> \o SubSeq(perm, at, Len(perm))
         ELSE InsertUnstable(perm, i, ks, at + 1)

RECURSIVE InsertDesc(_, _, _, _)
InsertDesc(perm, i, ks, at) ==
    IF at > Len(perm) THEN Append(perm, i)
    ELSE IF ks[perm[at]] < ks[i]
         THEN SubSeq(perm, 1, at - 1) \o <<i>> \o SubSeq(perm, at, Len(perm))
         ELSE InsertDesc(perm, i, ks, at + 1)

RECURSIVE SortOrder(_, _, _)
SortOrder(perm, i, ks) ==
    IF i > Len(ks) THEN perm
    ELSE SortOrder(InsertDesc(perm, i, ks, 1), i + 1, ks)

sort_reverse(s, ks) ==
    LET perm == SortOrder(<<>>, 1, ks)
    IN  [i \in 1..Len(s) |-> s[perm[i]]]

\* s[:n]
Truncate_short(s, n) == SubSeq(s, 1, Min2(n, Len(s)) - 1)

Truncate(s, n) == SubSeq(s, 1, Min2(n, Len(s)))

\* The statements after the loop over the query variants.
finish(provider, all, max_results) ==
    CASE provider = "youtube" ->
             Truncate(sort_reverse(all, [i \in 1..Len(all) |-> view_key(all[i])]), max_results)
      [] provider = "twitter" ->
             Truncate(sort_reverse(all, [i \in 1..Len(all) |-> count_key(all[i])]), max_results)
      [] OTHER -> Truncate(all, max_results)

AggStart(provider, max_results) ==
    /\ agg.pc = "off"
    /\ agg' = [AggIdle EXCEPT !.pc = "run", !.provider = provider,
                              !.max_results = max_results, !.qi = 1]
    /\ UNCHANGED <<shoes, sources, nextId, pc, cur, log, fn, run>>

\* One iteration of "for query in queries": the adapter call and the merge;
\* after the last variant, the sort and the truncation.
AggQuery(videos) ==
    /\ agg.pc = "run"
    /\ LET acc == merge([all |-> agg.all, seen |-> agg.seen], videos)
           last == agg.qi = Len(Queries(agg.provider))
       IN  agg' = [agg EXCEPT !.resp = Append(@, videos),
                              !.all = acc.all,
                              !.seen = acc.seen,
                              !.qi = @ + 1,
                              !.pc = IF last THEN "done" ELSE "run",
                              !.out = IF last
                                      THEN finish(agg.provider, acc.all, agg.max_results)
                                      ELSE <<>>]
    /\ UNCHANGED <<shoes, sources, nextId, pc, cur, log, fn, run>>

NextAgg ==
    \/ \E provider \in Providers, n \in 0..MaxResults : AggStart(provider, n)
    \/ \E videos \in Responses(agg.provider, agg.max_results, agg.qi) : AggQuery(videos)

SpecAgg == Init /\ [][NextAgg]_vars

(***************************************************************************)
(* One aggregator run over the same adapter responses in two orders        *)
(***************************************************************************)
MaxPermResults == 3     \* largest max_results in SpecPerm

\* Popularity values in SpecPerm (None stands for "no metric").
PermMetrics(provider) ==
    CASE provider = "youtube" -> {NoMetric, 1}
      [] provider = "twitter" -> {0, 1}
      [] provider = "reddit"  -> {0, 1}
      [] OTHER                -> {NoMetric}

\* The orders in which the query variants 1..n can be issued.
Orders(n) == {o \in [1..n -> 1..n] : \A i, j \in 1..n : o[i] = o[j] => i = j}

\* The loop "for query in queries" with the variants issued in the given order,
\* then the statements after the loop.
RECURSIVE merge_variants(_, _, _, _)
merge_variants(acc, resp, order, i) ==
    IF i > Len(order) THEN acc
    ELSE merge_variants(merge(acc, resp[order[i]]), resp, order, i + 1)

aggregate(provider, max_results, resp, order) ==
    LET acc == merge_variants([all |-> <<>>, seen |-> {}], resp, order, 1)
    IN  [all |-> acc.all, out |-> finish(provider, acc.all, max_results)]

PermResponses(provider, max_results, q) ==
    ResponsesOver(provider, max_results, q, Keys, PermMetrics(provider))

\* resp[q] is what the adapter answers to variant q, whenever it is asked.
PermInputs(provider, max_results) ==
    IF Len(Queries(provider)) = 2
    THEN {<<r1, r2>> : r1 \in PermResponses(provider, max_results, 1),
                       r2 \in PermResponses(provider, max_results, 2)}
    ELSE {<<r1, r2, r3>> : r1 \in PermResponses(provider, max_results, 1),
                           r2 \in PermResponses(provider, max_results, 2),
                           r3 \in PermResponses(provider, max_results, 3)}

\* The adapter answers and the arguments are fixed before the two runs.
InitPerm ==
    /\ shoes = {} /\ sources = {} /\ nextId = 1
    /\ pc = [p \in Clients |-> "idle"] /\ cur = [p \in Clients |-> Idle] /\ log = <<>>
    /\ agg = AggIdle /\ run = RunIdle
    /\ \E provider \in Providers, n \in 0..MaxPermResults :
           \E resp \in PermInputs(provider, n) :
               fn = [op |-> "", provider |-> provider, max_results |-> n, resp |-> resp]

PermRun(order) ==
    /\ fn.op = ""
    /\ fn' = [op |-> "aggregate", provider |-> fn.provider, max_results |-> fn.max_results,
              resp |-> fn.resp, order |-> order,
              base |-> aggregate(fn.provider, fn.max_results, fn.resp,
                                 [i \in 1..Len(Queries(fn.provider)) |-> i]),
              perm |-> aggregate(fn.provider, fn.max_results, fn.resp, order)]
    /\ UNCHANGED <<shoes, sources, nextId, pc, cur, log, agg, run>>

NextPerm == \E order \in Orders(Len(Queries(fn.provider))) : PermRun(order)

SpecPerm == InitPerm /\ [][NextPerm]_vars

(***************************************************************************)
(* The video aggregator on up to six raw items with four natural keys      *)
(***************************************************************************)
MaxVideoResults == 4    \* largest max_results in SpecVideo

VideoKeys == Keys \cup {"k4"}

VideoResponses(max_results, q) ==
    ResponsesOver("youtube", max_results, q, VideoKeys, {NoMetric, 1})

InitVideo ==
    /\ shoes = {} /\ sources = {} /\ nextId = 1
    /\ pc = [p \in Clients |-> "idle"] /\ cur = [p \in Clients |-> Idle] /\ log = <<>>
    /\ agg = AggIdle /\ run = RunIdle
    /\ \E n \in 0..MaxVideoResults :
           \E r1 \in VideoResponses(n, 1), r2 \in VideoResponses(n, 2),
              r3 \in VideoResponses(n, 3) :
               fn = [op |-> "", max_results |-> n, resp |-> <<r1, r2, r3>>]

\* search_shoe_reviews(brand, model_name, max_results)
VideoRun ==
    /\ fn.op = ""
    /\ fn' = [op |-> "search_shoe_reviews", max_results |-> fn.max_results,
              resp |-> fn.resp,
              res |-> aggregate("youtube", fn.max_results, fn.resp, <<1, 2, 3>>)]
    /\ UNCHANGED <<shoes, sources, nextId, pc, cur, log, agg, run>>

SpecVideo == InitVideo /\ [][VideoRun]_vars

(***************************************************************************)
(* Single calls of the provider adapters over provider-side outcomes       *)
(***************************************************************************)
MaxItems == 2       \* most items in one provider response body

SeqsUpTo(S, n) == UNION {[1..k -> S] : k \in 0..n}

\* What requests.get / requests.post can do: raise a transport exception, or
\* return a response with a status code and a body that is JSON or not.
HttpResponses(items) ==
    {[exc |-> e, status |-> 0, json_ok |-> FALSE, items |-> <<>>] :
        e \in {"ConnectionError", "Timeout"}}
    \cup {[exc |-> "none", status |-> s, json_ok |-> j, items |-> <<>>] :
        s \in {200, 429, 500}, j \in BOOLEAN}
    \cup {[exc |-> "none", status |-> 200, json_ok |-> TRUE, items |-> it] :
        it \in SeqsUpTo(items, MaxItems)}

\* response.raise_for_status() raises HTTPError
raise_for_status(response) == response.status >= 400

\* `if e.response`: a Response is truthy only when its status is below 400
response_truthy(response) == response.status < 400

Returned(ret) == [ret |-> ret, raised |-> FALSE]
Raised == [ret |-> <<>>, raised |-> TRUE]

\* A provider-side failure of one HTTP exchange.
HttpFailed(response) ==
    \/ response.exc # "none"
    \/ raise_for_status(response)
    \/ ~response.json_ok
    \/ \E i \in 1..Len(response.items) : ~response.items[i].wf

\* items of the search endpoint; wf = FALSE: item['id']['videoId'] is missing
SearchItems ==
    {[wf |-> TRUE, key |-> k, title |-> t] : k \in {"k1", "k2"}, t \in {"t1", "t2"}}
    \cup {[wf |-> FALSE, key |-> "", title |-> ""]}

\* items of the videos endpoint; wf = FALSE: item['id'] is missing or a
\* count is not a number; viewCount = NoMetric: the field is absent
StatItems ==
    {[wf |-> TRUE, key |-> k, viewCount |-> v] : k \in {"k1", "k2"}, v \in {NoMetric, 5}}
    \cup {[wf |-> FALSE, key |-> "", viewCount |-> NoMetric]}

\* YouTubeVideo(video_id=..., title=..., ...): view_count defaults to None
YouTubeVideo(item) == [key |-> item.key, title |-> item.title, metric |-> NoMetric]

\* int(stats.get('viewCount', 0))
int_viewCount(item) == IF item.viewCount = NoMetric THEN 0 ELSE item.viewCount

enrich_video_stats_drop(api_key, videos, stats) ==
    IF ~api_key THEN videos ELSE <<>>

enrich_video_stats(api_key, videos, stats) ==
    IF ~api_key \/ videos = <<>> THEN videos
    ELSE IF HttpFailed(stats) THEN videos
    ELSE LET has(k) == \E j \in 1..Len(stats.items) : stats.items[j].key = k
             last(k) == CHOOSE j \in 1..Len(stats.items) :
                            /\ stats.items[j].key = k
                            /\ \A h \in (j + 1)..Len(stats.items) : stats.items[h].key # k
         IN  [i \in 1..Len(videos) |->
                 IF has(videos[i].key)
                 THEN [videos[i] EXCEPT !.metric = int_viewCount(stats.items[last(videos[i].key)])]
                 ELSE videos[i]]

search_youtube_videos(api_key, response, stats) ==
    IF ~api_key THEN Returned(<<>>)
    ELSE IF response.exc # "none" THEN Returned(<<>>)
    ELSE IF raise_for_status(response)
         THEN IF response_truthy(response) /\ ~response.json_ok THEN Raised
              ELSE Returned(<<>>)
    ELSE IF ~response.json_ok THEN Returned(<<>>)
    ELSE IF \E i \in 1..Len(response.items) : ~response.items[i].wf THEN Returned(<<>>)
    ELSE LET videos == [i \in 1..Len(response.items) |-> YouTubeVideo(response.items[i])]
         IN  Returned(IF videos # <<>> THEN enrich_video_stats(api_key, videos, stats)
                      ELSE videos)

\* hits of the web search; wf = FALSE: the entry of 'organic' is not an object
OrganicItems ==
    {[wf |-> TRUE, key |-> k] : k \in {"k1", "k2"}} \cup {[wf |-> FALSE, key |-> ""]}

search_serper(api_key, response) ==
    IF ~api_key THEN Returned(<<>>)
    ELSE IF response.exc # "none" \/ raise_for_status(response) \/ ~response.json_ok
         THEN Returned(<<>>)
    ELSE Returned(response.items)

\* What client.search_recent_tweets can do; wf = FALSE: tweet.text is None
TweetItems ==
    {[wf |-> TRUE, key |-> k, metric |-> m] : k \in {"k1", "k2"}, m \in {0, 1}}
    \cup {[wf |-> FALSE, key |-> "", metric |-> 0]}

TweetResponses ==
    {[exc |-> e, items |-> <<>>] :
        e \in {"TooManyRequests", "Forbidden", "ConnectionError", "Timeout"}}
    \cup {[exc |-> "none", items |-> it] : it \in SeqsUpTo(TweetItems, MaxItems)}

TweetsFailed(response) ==
    \/ response.exc # "none"
    \/ \E i \in 1..Len(response.items) : ~response.items[i].wf

search_tweets(client, response) ==
    IF ~client THEN Returned(<<>>)
    ELSE IF response.exc # "none" THEN Returned(<<>>)
    ELSE IF response.items = <<>> THEN Returned(<<>>)
    ELSE IF \E i \in 1..Len(response.items) : ~response.items[i].wf THEN Returned(<<>>)
    ELSE LET tweets == [i \in 1..Len(response.items) |->
                           [key |-> response.items[i].key, metric |-> response.items[i].metric]]
         IN  Returned(sort_reverse(tweets, [i \in 1..Len(tweets) |-> count_key(tweets[i])]))

\* What iterating subreddit.search(...) can do: raise on the request, or yield
\* submissions; wf = FALSE: _submission_to_post raises on the submission
SubmissionItems ==
    {[wf |-> TRUE, key |-> k, metric |-> m] : k \in {"k1", "k2"}, m \in {0, 1}}
    \cup {[wf |-> FALSE, key |-> "", metric |-> 0]}

Listings ==
    {[exc |-> e, items |-> <<>>] : e \in {"TooManyRequests", "Timeout"}}
    \cup {[exc |-> "none", items |-> it] : it \in SeqsUpTo(SubmissionItems, MaxItems)}

ListingFailed(listing) ==
    \/ listing.exc # "none"
    \/ \E i \in 1..Len(listing.items) : ~listing.items[i].wf

\* for submission in results: posts.append(_submission_to_post(submission)),
\* up to the first exception
RECURSIVE appended(_)
appended(items) ==
    IF items = <<>> \/ ~Head(items).wf THEN <<>>
    ELSE <<[key |-> Head(items).key, metric |-> Head(items).metric]>> \o appended(Tail(items))

\* limit=max_results // len(subreddits)
subreddit_limit_whole(max_results, n) == max_results

subreddit_limit(max_results, n) == max_results \div n

search_reddit_posts(client, subreddits, max_results, listings) ==
    IF ~client THEN Returned(<<>>)
    ELSE IF subreddits
         THEN LET limit == subreddit_limit(max_results, Len(listings))
                  posts == appended(Truncate(listings[1].items, limit))
                               \o appended(Truncate(listings[2].items, limit))
              IN  Returned(Truncate(
                      sort_reverse(posts, [i \in 1..Len(posts) |-> count_key(posts[i])]),
                      max_results))
         ELSE IF ListingFailed(listings[1]) THEN Returned(<<>>)
              ELSE LET posts == appended(Truncate(listings[1].items, max_results))
                   IN  Returned(Truncate(
                           sort_reverse(posts, [i \in 1..Len(posts) |-> count_key(posts[i])]),
                           max_results))

InitAdapter ==
    /\ shoes = {} /\ sources = {} /\ nextId = 1
    /\ pc = [p \in Clients |-> "idle"] /\ cur = [p \in Clients |-> Idle] /\ log = <<>>
    /\ agg = AggIdle /\ run = RunIdle
    /\ \/ \E api_key \in BOOLEAN, response \in HttpResponses(SearchItems),
             stats \in HttpResponses(StatItems) :
               fn = [op |-> "", adapter |-> "search_youtube_videos", configured |-> api_key,
                     response |-> response, stats |-> stats]
       \/ \E api_key \in BOOLEAN, response \in HttpResponses(OrganicItems) :
               fn = [op |-> "", adapter |-> "search_serper", configured |-> api_key,
                     response |-> response]
       \/ \E client \in BOOLEAN, response \in TweetResponses :
               fn = [op |-> "", adapter |-> "search_tweets", configured |-> client,
                     response |-> response]
       \/ \E client \in BOOLEAN, subreddits \in BOOLEAN, max_results \in 1..4,
             l1 \in Listings, l2 \in Listings :
               /\ ~subreddits => l2 = l1
               /\ fn = [op |-> "", adapter |-> "search_reddit_posts", configured |-> client,
                        subreddits |-> subreddits, max_results |-> max_results,
                        listings |-> <<l1, l2>>]

Finished(res, failed) ==
    /\ fn' = [fn EXCEPT !.op = fn.adapter] @@
             [ret |-> res.ret, raised |-> res.raised, failed |-> failed]
    /\ UNCHANGED <<shoes, sources, nextId, pc, cur, log, agg, run>>

CallYoutube ==
    /\ fn.op = "" /\ fn.adapter = "search_youtube_videos"
    /\ Finished(search_youtube_videos(fn.configured, fn.response, fn.stats),
                HttpFailed(fn.response))

CallSerper ==
    /\ fn.op = "" /\ fn.adapter = "search_serper"
    /\ Finished(search_serper(fn.configured, fn.response), HttpFailed(fn.response))

CallTweets ==
    /\ fn.op = "" /\ fn.adapter = "search_tweets"
    /\ Finished(search_tweets(fn.configured, fn.response), TweetsFailed(fn.response))

CallReddit ==
    /\ fn.op = "" /\ fn.adapter = "search_reddit_posts"
    /\ Finished(search_reddit_posts(fn.configured, fn.subreddits, fn.max_results, fn.listings),
                \E i \in 1..(IF fn.subreddits THEN 2 ELSE 1) : ListingFailed(fn.listings[i]))

NextAdapter == CallYoutube \/ CallSerper \/ CallTweets \/ CallReddit

SpecAdapter == InitAdapter /\ [][NextAdapter]_vars

(***************************************************************************)
(* The web-search adapters and the URL extractors (web_collector.py).      *)
(* A string is the sequence of its characters.                             *)
(***************************************************************************)
s_https == <<"h", "t", "t", "p", "s", ":", "/", "/">>
s_twitter_com == <<"t", "w", "i", "t", "t", "e", "r", ".", "c", "o", "m">>
s_x_com == <<"x", ".", "c", "o", "m">>
s_reddit_com == <<"r", "e", "d", "d", "i", "t", ".", "c", "o", "m">>
s_slash == <<"/">>
s_status == <<"s", "t", "a", "t", "u", "s">>
s_comments == <<"c", "o", "m", "m", "e", "n", "t", "s">>
s_search == <<"s", "e", "a", "r", "c", "h">>
s_hashtag == <<"h", "a", "s", "h", "t", "a", "g">>
s_i == <<"i">>
s_intent == <<"i", "n", "t", "e", "n", "t">>
s_r == <<"r">>
s_query == <<"?", "q", "=", "n", "i", "k", "e">>
s_nike == <<"n", "i", "k", "e">>
s_bob == <<"b", "o", "b">>
s_run == <<"r", "u", "n">>
s_id == <<"4", "2">>
s_tweet == <<"t", "w", "e", "e", "t">>

\* t in s
Occurrences(s, t) == {i \in 1..(Len(s) - Len(t) + 1) : SubSeq(s, i, i + Len(t) - 1) = t}

Contains(s, t) == Occurrences(s, t) # {}

\* the longest run of characters other than '/' that starts at position j
SegmentAt(s, j) ==
    LET stops == {k \in j..(Len(s) + 1) : k = Len(s) + 1 \/ s[k] = "/"}
        stop == CHOOSE k \in stops : \A h \in stops : k <= h
    IN  SubSeq(s, j, stop - 1)

First(S) == CHOOSE i \in S : \A j \in S : i <= j

\* re.search(host '/([^/]+)' tail, url): the positions after "host/" where a
\* non-empty segment starts that is followed by tail
SegmentMatches(url, hosts, tail) ==
    LET after == UNION {{i + Len(h) : i \in Occurrences(url, h)} : h \in hosts}
    IN  {j \in {a + 1 : a \in after} :
            /\ j - 1 <= Len(url) /\ url[j - 1] = "/"
            /\ LET segment == SegmentAt(url, j)
                   e == j + Len(segment)
               IN  /\ segment # <<>>
                   /\ e + Len(tail) - 1 <= Len(url)
                   /\ SubSeq(url, e, e + Len(tail) - 1) = tail}

NoMatch == <<"no match">>

re_search(url, hosts, tail) ==
    LET matches == SegmentMatches(url, hosts, tail)
    IN  IF matches = {} THEN NoMatch ELSE SegmentAt(url, First(matches))

TwitterHosts == {s_twitter_com, s_x_com}

\* ['search', 'hashtag', 'i', 'intent']
Excluded == {s_search, s_hashtag, s_i, s_intent}

extract_twitter_username(url) ==
    LET m1 == re_search(url, TwitterHosts, s_slash \o s_status)
        m2 == re_search(url, TwitterHosts, <<>>)
    IN  IF m1 # NoMatch /\ m1 \notin Excluded THEN m1
        ELSE IF m2 # NoMatch /\ m2 \notin Excluded THEN m2
        ELSE <<>>

extract_reddit_info(url) ==
    LET m == re_search(url, {s_reddit_com \o s_slash \o s_r}, <<>>)
    IN  [subreddit |-> IF m # NoMatch THEN m ELSE <<>>,
         type |-> IF Contains(url, s_slash \o s_comments \o s_slash) THEN "post"
                  ELSE IF Contains(url, s_slash \o s_r \o s_slash) THEN "subreddit"
                  ELSE "post"]

\* URLs by construction: kind says what page the URL is, handle is the author
\* or community of a permalink.
Page(kind, handle, url) == [kind |-> kind, handle |-> handle, url |-> url]

TwitterPages ==
    UNION {LET base == s_https \o h
           IN  {Page("homepage", <<>>, base),
                Page("homepage", <<>>, base \o s_slash),
                Page("search", <<>>, base \o s_slash \o s_search),
                Page("search", <<>>, base \o s_slash \o s_search \o s_query),
                Page("hashtag", <<>>, base \o s_slash \o s_hashtag \o s_slash \o s_nike),
                Page("reserved", <<>>, base \o s_slash \o s_i \o s_slash \o s_run),
                Page("reserved", <<>>, base \o s_slash \o s_intent \o s_slash \o s_tweet),
                Page("profile", s_bob, base \o s_slash \o s_bob)}
               \cup {Page("permalink", u, base \o s_slash \o u \o s_slash \o s_status \o s_slash \o s_id) :
                        u \in {s_nike, s_bob}}
           : h \in TwitterHosts}

RedditPages ==
    LET base == s_https \o s_reddit_com
    IN  {Page("homepage", <<>>, base),
         Page("homepage", <<>>, base \o s_slash),
         Page("search", <<>>, base \o s_slash \o s_search \o s_query),
         Page("search", <<>>, base \o s_slash \o s_r \o s_slash \o s_run \o s_slash \o s_search \o s_query),
         Page("listing", s_run, base \o s_slash \o s_r \o s_slash \o s_run)}
        \cup {Page("permalink", c, base \o s_slash \o s_r \o s_slash \o c \o s_slash \o s_comments
                                      \o s_slash \o s_id \o s_slash \o s_nike) :
                 c \in {s_run, s_nike}}

MaxHits == 5        \* most hits in one web-search response

\* One entry of 'organic'; wf = FALSE: the entry is not an object
Hit(page) == [wf |-> TRUE, kind |-> page.kind, handle |-> page.handle, link |-> page.url]

MalformedHit == [wf |-> FALSE, kind |-> "", handle |-> <<>>, link |-> <<>>]

\* The hits a web search for twitter.com / x.com posts can return.
TwitterHits ==
    {Hit(p) : p \in {q \in TwitterPages :
                        \/ q.kind = "permalink" /\ Contains(q.url, s_twitter_com)
                        \/ q.kind = "permalink" /\ Contains(q.url, s_x_com) /\ q.handle = s_bob
                        \/ q.kind = "homepage" /\ Contains(q.url, s_twitter_com \o s_slash)
                        \/ q.kind = "search" /\ Contains(q.url, s_x_com) /\ Contains(q.url, s_query)
                        \/ q.kind = "hashtag" /\ Contains(q.url, s_twitter_com)}}

\* The hits a web search for reddit.com posts can return.
RedditHits ==
    {Hit(p) : p \in {q \in RedditPages :
                        \/ q.kind = "permalink"
                        \/ q.kind = "homepage" /\ Contains(q.url, s_reddit_com \o s_slash)
                        \/ q.kind = "search" /\ Contains(q.url, s_slash \o s_r \o s_slash)}}
    \cup {Hit(p) : p \in {q \in TwitterPages :
                        q.kind = "permalink" /\ Contains(q.url, s_twitter_com) /\ q.handle = s_nike}}
    \cup {MalformedHit}

\* The loop `for result in results` of search_twitter_posts: st holds posts,
\* seen_urls, and whether the loop has ended (break) or an exception left it.
RECURSIVE twitter_loop_no_filter(_, _, _)
twitter_loop_no_filter(results, max_results, st) ==
    IF results = <<>> \/ st.done THEN st
    ELSE LET result == Head(results)
             url == result.link
         IN  IF ~result.wf
             THEN [st EXCEPT !.done = TRUE, !.raised = TRUE]
             ELSE IF ~(Contains(url, s_twitter_com) \/ Contains(url, s_x_com))
             THEN twitter_loop_no_filter(Tail(results), max_results, st)
             ELSE IF url \in st.seen_urls
             THEN twitter_loop_no_filter(Tail(results), max_results, st)
             ELSE LET posts == Append(st.posts,
                                   [platform |-> "twitter", url |-> url,
                                    author |-> extract_twitter_username(url),
                                    post_type |-> "tweet"])
                       IN  twitter_loop_no_filter(Tail(results), max_results,
                               [st EXCEPT !.posts = posts,
                                          !.seen_urls = st.seen_urls \cup {url},
                                          !.done = Len(posts) >= max_results])

RECURSIVE twitter_loop(_, _, _)
twitter_loop(results, max_results, st) ==
    IF results = <<>> \/ st.done THEN st
    ELSE LET result == Head(results)
             url == result.link
         IN  IF ~result.wf
             THEN [st EXCEPT !.done = TRUE, !.raised = TRUE]
             ELSE IF ~(Contains(url, s_twitter_com) \/ Contains(url, s_x_com))
             THEN twitter_loop(Tail(results), max_results, st)
             ELSE IF url \in st.seen_urls
             THEN twitter_loop(Tail(results), max_results, st)
             ELSE IF ~Contains(url, s_slash \o s_status \o s_slash)
             THEN twitter_loop(Tail(results), max_results,
                               [st EXCEPT !.seen_urls = st.seen_urls \cup {url}])
             ELSE LET posts == Append(st.posts,
                                   [platform |-> "twitter", url |-> url,
                                    author |-> extract_twitter_username(url),
                                    post_type |-> "tweet"])
                  IN  twitter_loop(Tail(results), max_results,
                          [st EXCEPT !.posts = posts,
                                     !.seen_urls = st.seen_urls \cup {url},
                                     !.done = Len(posts) >= max_results])

RECURSIVE reddit_loop(_, _, _)
reddit_loop(results, max_results, st) ==
    IF results = <<>> \/ st.done THEN st
    ELSE LET result == Head(results)
             url == result.link
         IN  IF ~result.wf
             THEN [st EXCEPT !.done = TRUE, !.raised = TRUE]
             ELSE IF ~Contains(url, s_reddit_com)
             THEN reddit_loop(Tail(results), max_results, st)
             ELSE IF url \in st.seen_urls
             THEN reddit_loop(Tail(results), max_results, st)
             ELSE IF ~Contains(url, s_slash \o s_comments \o s_slash)
             THEN reddit_loop(Tail(results), max_results,
                              [st EXCEPT !.seen_urls = st.seen_urls \cup {url}])
             ELSE LET posts == Append(st.posts,
                                   [platform |-> "reddit", url |-> url,
                                    author |-> extract_reddit_info(url).subreddit,
                                    post_type |-> "reddit_post"])
                  IN  reddit_loop(Tail(results), max_results,
                          [st EXCEPT !.posts = posts,
                                     !.seen_urls = st.seen_urls \cup {url},
                                     !.done = Len(posts) >= max_results])

LoopStart == [posts |-> <<>>, seen_urls |-> {}, done |-> FALSE, raised |-> FALSE]

search_twitter_posts(results, max_results) ==
    LET st == twitter_loop(results, max_results, LoopStart)
    IN  IF st.raised THEN Raised ELSE Returned(st.posts)

search_reddit_posts_via_web(results, max_results) ==
    LET st == reddit_loop(results, max_results, LoopStart)
    IN  IF st.raised THEN Raised ELSE Returned(st.posts)

InitWeb ==
    /\ shoes = {} /\ sources = {} /\ nextId = 1
    /\ pc = [p \in Clients |-> "idle"] /\ cur = [p \in Clients |-> Idle] /\ log = <<>>
    /\ agg = AggIdle /\ run = RunIdle
    /\ \/ \E results \in SeqsUpTo(TwitterHits, MaxHits), max_results \in {2, 10} :
               fn = [op |-> "", call |-> "search_twitter_posts",
                     results |-> results, max_results |-> max_results]
       \/ \E results \in SeqsUpTo(RedditHits, MaxHits), max_results \in {2, 10} :
               fn = [op |-> "", call |-> "search_reddit_posts_via_web",
                     results |-> results, max_results |-> max_results]
       \* the URL handed to an extractor
       \/ \E page \in TwitterPages \cup RedditPages,
             call \in {"extract_twitter_username", "extract_reddit_info"} :
               fn = [op |-> "", call |-> call, page |-> page]

SearchTwitterPosts ==
    /\ fn.op = "" /\ fn.call = "search_twitter_posts"
    /\ LET res == search_twitter_posts(fn.results, fn.max_results)
       IN  fn' = [fn EXCEPT !.op = fn.call] @@ [ret |-> res.ret, raised |-> res.raised]
    /\ UNCHANGED <<shoes, sources, nextId, pc, cur, log, agg, run>>

SearchRedditPostsViaWeb ==
    /\ fn.op = "" /\ fn.call = "search_reddit_posts_via_web"
    /\ LET res == search_reddit_posts_via_web(fn.results, fn.max_results)
       IN  fn' = [fn EXCEPT !.op = fn.call] @@ [ret |-> res.ret, raised |-> res.raised]
    /\ UNCHANGED <<shoes, sources, nextId, pc, cur, log, agg, run>>

ExtractTwitterUsername ==
    /\ fn.op = "" /\ fn.call = "extract_twitter_username"
    /\ fn' = [fn EXCEPT !.op = fn.call] @@ [ret |-> extract_twitter_username(fn.page.url)]
    /\ UNCHANGED <<shoes, sources, nextId, pc, cur, log, agg, run>>

ExtractRedditInfo ==
    /\ fn.op = "" /\ fn.call = "extract_reddit_info"
    /\ fn' = [fn EXCEPT !.op = fn.call] @@ [ret |-> extract_reddit_info(fn.page.url)]
    /\ UNCHANGED <<shoes, sources, nextId, pc, cur, log, agg, run>>

NextWeb ==
    \/ SearchTwitterPosts \/ SearchRedditPostsViaWeb
    \/ ExtractTwitterUsername \/ ExtractRedditInfo

SpecWeb == InitWeb /\ [][NextWeb]_vars

(***************************************************************************)
(* The query formulation of the aggregators                                *)
(***************************************************************************)
MaxQueryCalls == 2  \* calls of one aggregator for the same subject

Brands == {"Nike", "Asics", "Acme"}

Models == {"Peg", "Gel", "Runner X", "41"}

\* f'{brand} {model_name}' and f'{brand} {model_name} {suffix}': a query is
\* the sequence of its parts.
fstring(brand, model_name, suffix) ==
    IF suffix = "" THEN <<brand, " ", model_name>>
    ELSE <<brand, " ", model_name, " ", suffix>>

\* queries = [...] of search_shoe_reviews and its siblings
queries(provider, brand, model_name) ==
    [i \in 1..Len(Queries(provider)) |-> fstring(brand, model_name, Queries(provider)[i])]

InitQuery ==
    /\ shoes = {} /\ sources = {} /\ nextId = 1
    /\ pc = [p \in Clients |-> "idle"] /\ cur = [p \in Clients |-> Idle] /\ log = <<>>
    /\ agg = AggIdle /\ run = RunIdle
    /\ \E provider \in Providers, brand \in Brands, model_name \in Models :
           fn = [op |-> "", provider |-> provider, brand |-> brand,
                 model_name |-> model_name, calls |-> <<>>]

\* One more call of the aggregator for the same subject builds its queries.
Formulate ==
    /\ Len(fn.calls) < MaxQueryCalls
    /\ fn' = [fn EXCEPT !.op = "queries",
                        !.calls = Append(fn.calls, queries(fn.provider, fn.brand, fn.model_name))]
    /\ UNCHANGED <<shoes, sources, nextId, pc, cur, log, agg, run>>

SpecQuery == InitQuery /\ [][Formulate]_vars

(***************************************************************************)
(* Listing the sources of a shoe: get_curated_sources_for_shoe             *)
(***************************************************************************)
MaxRows == 4        \* most rows of the curatedSources table in SpecRead

\* reliability (in tenths) and "createdAt" of a row
Ranks ==
    {[reliability |-> 8, createdAt |-> 1], [reliability |-> 8, createdAt |-> 2],
     [reliability |-> 6, createdAt |-> 2]}

\* The columns of a curatedSources row the query reads; rows are also written
\* by other applications, with any status.
RowValues ==
    {[shoeId |-> s, status |-> st, reliability |-> k.reliability, createdAt |-> k.createdAt] :
        s \in {1, 2}, st \in {"PUBLISHED", "DRAFT"}, k \in Ranks}

\* The table with the rows f[1], ..., f[n]; the primary key id is the index.
SourceTable(f) ==
    {[id |-> i, shoeId |-> f[i].shoeId, status |-> f[i].status,
      reliability |-> f[i].reliability, createdAt |-> f[i].createdAt] : i \in DOMAIN f}

\* WHERE "shoeId" = %s AND status = 'PUBLISHED'
where_any_status(src, shoe_id) == {r \in src : r.shoeId = shoe_id}

where(src, shoe_id) == {r \in src : r.shoeId = shoe_id /\ r.status = "PUBLISHED"}

\* ORDER BY reliability DESC, "createdAt" DESC: every order of the rows the
\* database may return (rows equal in both columns come in any order)
order_by(rows) ==
    {s \in [1..Cardinality(rows) -> rows] :
        /\ \A i, j \in 1..Cardinality(rows) : s[i] = s[j] => i = j
        /\ \A i \in 1..(Cardinality(rows) - 1) :
               \/ s[i].reliability > s[i + 1].reliability
               \/ /\ s[i].reliability = s[i + 1].reliability
                  /\ s[i].createdAt >= s[i + 1].createdAt}

\* SELECT id, ..., reliability, "createdAt"
select(row) == [id |-> row.id, reliability |-> row.reliability, createdAt |-> row.createdAt]

InitRead ==
    /\ shoes = {[id |-> 1, brand |-> "Nike", modelName |-> "Peg"],
                [id |-> 2, brand |-> "Asics", modelName |-> "Gel"]}
    /\ \E n \in 0..MaxRows : \E f \in [1..n -> RowValues] : sources = SourceTable(f)
    /\ nextId = 1
    /\ pc = [p \in Clients |-> "idle"] /\ cur = [p \in Clients |-> Idle] /\ log = <<>>
    /\ agg = AggIdle /\ run = RunIdle
    /\ \E shoe_id \in {1, 2} : fn = [op |-> "", shoe_id |-> shoe_id]

\* get_curated_sources_for_shoe(shoe_id), the query succeeds
ReadSources ==
    /\ fn.op = ""
    /\ get_db_connection(TRUE)
    /\ \E rows \in order_by(where(sources, fn.shoe_id)) :
           fn' = [op |-> "get_curated_sources_for_shoe", shoe_id |-> fn.shoe_id, ok |-> TRUE,
                  ret |-> [i \in 1..Len(rows) |-> select(rows[i])]]
    /\ UNCHANGED <<shoes, sources, nextId, pc, cur, log, agg, run>>

\* get_curated_sources_for_shoe(shoe_id), no connection or the query raises
ReadSourcesFails(reachable, fault) ==
    /\ fn.op = ""
    /\ ~get_db_connection(reachable) \/ fault
    /\ fn' = [op |-> "get_curated_sources_for_shoe", shoe_id |-> fn.shoe_id, ok |-> FALSE,
              ret |-> <<>>]
    /\ UNCHANGED <<shoes, sources, nextId, pc, cur, log, agg, run>>

NextRead ==
    \/ ReadSources
    \/ \E reachable \in BOOLEAN, fault \in BOOLEAN : ReadSourcesFails(reachable, fault)

SpecRead == InitRead /\ [][NextRead]_vars

(***************************************************************************)
(* The collection commands of main.py, run one after another by one        *)
(* pipeline instance: shoes add, then collect or collect-all               *)
(***************************************************************************)
MaxRuns == 2        \* runs of the same collection, one after another
MaxFaults == 1      \* store calls that fail during the runs

NotQueried == 0 - 1 \* no count is printed for the provider

RunProviders == {"youtube", "twitter", "reddit"}

\* reliability=0.8 / 0.65 / 0.6, in hundredths
RunPayload(provider) ==
    [title |-> "t1", author |-> "a1", excerpt |-> "e1", metadata |-> "m1",
     reliability |-> CASE provider = "youtube" -> 80
                       [] provider = "twitter" -> 65
                       [] OTHER -> 60]

\* What the aggregators return for the subject, the same in every run: the
\* URLs of the records of each provider.
RunResults ==
    [youtube : {<<>>, <<"y1">>, <<"y1", "y2">>},
     twitter : {<<>>, <<"t1">>, <<"t1", "t2">>},
     reddit  : {<<>>, <<"r1">>}]

\* if 'youtube' in sources / if 'social' in sources and SERPER_API_KEY
Queried(srcs, key) ==
    (IF "youtube" \in srcs THEN {"youtube"} ELSE {})
    \cup (IF "social" \in srcs /\ key THEN {"twitter", "reddit"} ELSE {})

\* The records handed to create_curated_source, in the order of the loops.
records(srcs, key, res) ==
    LET of(provider) ==
            IF provider \in Queried(srcs, key)
            THEN [i \in 1..Len(res[provider]) |-> [provider |-> provider, url |-> res[provider][i]]]
            ELSE <<>>
    IN  of("youtube") \o of("twitter") \o of("reddit")

\* cmd_shoes_add without a store failure: look the shoe up, create it if absent
shoes_add(sh, id, brand, model_name) ==
    LET existing == get_shoe_by_brand_model(sh, brand, model_name)
    IN  IF existing # {} THEN [shoes |-> sh, id |-> (CHOOSE s \in existing : TRUE).id]
        ELSE IF ShoesUniqueViolation(sh, brand, model_name) THEN [shoes |-> sh, id |-> None]
        ELSE [shoes |-> insert_shoe(sh, id, brand, model_name), id |-> id]

\* create_curated_source run without interleaving: check, then insert
create_curated_source_batch(src, id, shoe_id, url, pay, fail) ==
    IF fail THEN [sources |-> {r \in src : r.shoeId # shoe_id}, ret |-> None]
    ELSE IF find_source(src, url, shoe_id) # {}
         THEN [sources |-> on_duplicate(src, url, shoe_id, pay), ret |-> None]
    ELSE IF SourcesUniqueViolation(src, shoe_id, url) THEN [sources |-> src, ret |-> None]
    ELSE [sources |-> insert_source(src, id, shoe_id, url, pay), ret |-> id]

create_curated_source_blind(src, id, shoe_id, url, pay, fail) ==
    IF fail THEN [sources |-> src, ret |-> None]
    ELSE [sources |-> src \cup {[id |-> id, shoeId |-> shoe_id, url |-> url,
                                 title |-> pay.title, author |-> pay.author,
                                 excerpt |-> pay.excerpt, reliability |-> pay.reliability,
                                 metadata |-> pay.metadata, status |-> "PUBLISHED"]},
          ret |-> id]

create_curated_source(src, id, shoe_id, url, pay, fail) ==
    IF fail THEN [sources |-> src, ret |-> None]
    ELSE IF find_source(src, url, shoe_id) # {}
         THEN [sources |-> on_duplicate(src, url, shoe_id, pay), ret |-> None]
    ELSE IF SourcesUniqueViolation(src, shoe_id, url) THEN [sources |-> src, ret |-> None]
    ELSE [sources |-> insert_source(src, id, shoe_id, url, pay), ret |-> id]

NoCounts == [p \in RunProviders |-> 0]

\* The counts a command prints when it ends.
\* cmd_collect: len(videos), len(twitter_posts), len(reddit_posts) and the
\* total of the identities returned; cmd_collect_all: len(videos),
\* twitter_count, reddit_count.
printed(cmd, queried, res, inserted) ==
    [p \in RunProviders |->
        IF p \notin queried THEN NotQueried
        ELSE IF cmd = "collect" \/ p = "youtube" THEN Len(res[p])
        ELSE inserted[p]]

total_collected(cmd, inserted) ==
    IF cmd = "collect" THEN inserted["youtube"] + inserted["twitter"] + inserted["reddit"]
    ELSE NotQueried

Rows == Cardinality(shoes) + Cardinality(sources)

InitRun ==
    /\ shoes = {} /\ sources = {} /\ nextId = 1
    /\ pc = [p \in Clients |-> "idle"] /\ cur = [p \in Clients |-> Idle] /\ log = <<>>
    /\ agg = AggIdle /\ fn = FnIdle
    /\ \E cmd \in {"collect", "collect_all"}, s \in Subjects,
          srcs \in {{"youtube"}, {"youtube", "social"}, {"social"}},
          key \in BOOLEAN, res \in RunResults :
           run = [pc |-> "add", n |-> 1, cmd |-> cmd, brand |-> s[1], model_name |-> s[2],
                  srcs |-> srcs, key |-> key, res |-> res,
                  shoe_id |-> None, queue |-> <<>>, queried |-> {}, inserted |-> NoCounts,
                  rows0 |-> 0, faults |-> 0, done |-> <<>>]

\* The end of one run: the command prints its counts; the next run starts.
EndRun(r, queried, sh, src) ==
    LET report == [printed |-> printed(r.cmd, queried, r.res, r.inserted),
                   total |-> total_collected(r.cmd, r.inserted),
                   queried |-> queried, inserted |-> r.inserted,
                   wrote |-> Cardinality(sh) + Cardinality(src) - r.rows0,
                   shoes |-> sh, sources |-> src]
    IN  [r EXCEPT !.done = Append(r.done, report),
                  !.pc = IF r.n < MaxRuns THEN "add" ELSE "finished",
                  !.n = IF r.n < MaxRuns THEN r.n + 1 ELSE r.n,
                  !.queue = <<>>, !.queried = {}, !.inserted = NoCounts]

\* cmd_shoes_add(brand, model)
ShoesAdd(fail) ==
    /\ run.pc = "add"
    /\ fail => run.faults < MaxFaults
    /\ LET res == IF fail THEN [shoes |-> shoes, id |-> None]
                  ELSE shoes_add(shoes, nextId, run.brand, run.model_name)
       IN  /\ shoes' = res.shoes
           /\ nextId' = IF res.shoes # shoes THEN nextId + 1 ELSE nextId
           /\ run' = [run EXCEPT !.pc = "collect",
                                 !.rows0 = Rows,
                                 !.shoe_id = IF res.id # None THEN res.id ELSE run.shoe_id,
                                 !.faults = IF fail THEN run.faults + 1 ELSE run.faults]
    /\ UNCHANGED <<sources, pc, cur, log, agg, fn>>

\* cmd_collect(shoe_id) / cmd_collect_all up to the first create_curated_source:
\* get_all_shoes, find the shoe, run the aggregators
CollectStart(fail) ==
    /\ run.pc = "collect"
    /\ fail => run.faults < MaxFaults
    /\ LET all == IF fail THEN {} ELSE shoes
           found == IF run.cmd = "collect" THEN {s \in all : s.id = run.shoe_id} ELSE all
           r == [run EXCEPT !.faults = IF fail THEN run.faults + 1 ELSE run.faults]
       IN  IF found = {}
           THEN run' = EndRun(r, {}, shoes, sources)
           ELSE run' = [r EXCEPT !.pc = "insert",
                                 !.shoe_id = (CHOOSE s \in found : TRUE).id,
                                 !.queried = Queried(run.srcs, run.key),
                                 !.queue = records(run.srcs, run.key, run.res)]
    /\ UNCHANGED <<shoes, sources, nextId, pc, cur, log, agg, fn>>

\* one create_curated_source(...) of the loops over the records
CreateSource(fail) ==
    /\ run.pc = "insert" /\ run.queue # <<>>
    /\ fail => run.faults < MaxFaults
    /\ LET rec == Head(run.queue)
           res == create_curated_source(sources, nextId, run.shoe_id, rec.url,
                                        RunPayload(rec.provider), fail)
       IN  /\ sources' = res.sources
           /\ nextId' = IF res.ret # None THEN nextId + 1 ELSE nextId
           /\ run' = [run EXCEPT !.queue = Tail(run.queue),
                                 !.inserted[rec.provider] =
                                     IF res.ret # None THEN @ + 1 ELSE @,
                                 !.faults = IF fail THEN run.faults + 1 ELSE run.faults]
    /\ UNCHANGED <<shoes, pc, cur, log, agg, fn>>

\* the prints after the loops
CollectEnd ==
    /\ run.pc = "insert" /\ run.queue = <<>>
    /\ run' = EndRun(run, run.queried, shoes, sources)
    /\ UNCHANGED <<shoes, sources, nextId, pc, cur, log, agg, fn>>

NextRun ==
    \/ \E fail \in BOOLEAN : ShoesAdd(fail)
    \/ \E fail \in BOOLEAN : CollectStart(fail)
    \/ \E fail \in BOOLEAN : CreateSource(fail)
    \/ CollectEnd

SpecRun == InitRun /\ [][NextRun]_vars

(***************************************************************************)
(* cmd_collect and cmd_collect_all of main.py, statement by statement: the *)
(* order of the provider calls and of the inserts, and what is printed     *)
(***************************************************************************)
MaxSubjects == 2     \* shoes in the store when the command starts
MaxCmdFaults == 1    \* provider calls and store calls that fail in one run

\* max_results=10 in cmd_collect, max_results=5 in cmd_collect_all
cmd_max_results(cmd) == IF cmd = "collect" THEN 10 ELSE 5

\* limit = args.limit or 5
cmd_limit(limit) == IF limit = 0 THEN 5 ELSE limit

\* The shoes table when the command starts: identities in creation order.
StoredShoes(n) ==
    {[id |-> 1, brand |-> "Asics", modelName |-> "Gel"]}
    \cup (IF n > 1 THEN {[id |-> i, brand |-> "Nike", modelName |-> "Peg"] : i \in 2..n} ELSE {})

\* SELECT ... FROM shoes ORDER BY "createdAt" DESC; [] when there is no connection
RECURSIVE newest_first(_)
newest_first(sh) ==
    IF sh = {} THEN <<>>
    ELSE LET s == CHOOSE x \in sh : \A y \in sh : y.id <= x.id
         IN  <<s>> \o newest_first(sh \ {s})

get_all_shoes(sh, reachable) == IF get_db_connection(reachable) THEN newest_first(sh) ELSE <<>>

\* next((s for s in shoes if s['id'] == shoe_id), None), as a list of 0 or 1 shoes
find_shoe(all, shoe_id) == SelectSeq(all, LAMBDA s : s.id = shoe_id)

\* What one adapter call returns for query variant q (the URLs found).
CmdRecord(url) == [key |-> url, metric |-> 0]

CmdResponses(provider, q) ==
    CASE provider = "youtube" ->
             {<<>>, <<CmdRecord("y1"), CmdRecord("y2")>>}
      [] provider = "twitter" -> {<<CmdRecord("t1")>>}
      [] OTHER -> {<<>>, <<CmdRecord("r1")>>}

\* queries of search_shoe_reviews (3) and of search_shoe_reviews_social (2 per platform)
CmdQueries(provider) == IF provider = "youtube" THEN Queries("youtube") ELSE Queries("web_twitter")

\* if not YOUTUBE_API_KEY / if not SERPER_API_KEY: the adapter prints and returns []
KeyConfigured(r, provider) == IF provider = "youtube" THEN r.ytkey ELSE r.serper

Event(kind, r, provider, what, ok) ==
    [kind |-> kind, subject |-> r.i, provider |-> provider, what |-> what, ok |-> ok]

CmdDiag(r, provider, what) == [subject |-> r.i, provider |-> provider, what |-> what]

QueryPhases == {"youtube", "twitter", "reddit"}

InsertPhases == {"yt_insert", "tw_insert", "rd_insert"}

\* The provider whose records an insert loop goes through.
provider_of(phase) ==
    CASE phase \in {"youtube", "yt_insert"} -> "youtube"
      [] phase \in {"twitter", "tw_insert"} -> "twitter"
      [] OTHER -> "reddit"

\* The order of the loops inside one shoe: search_shoe_reviews, the video
\* inserts, then search_shoe_reviews_social (twitter, reddit), the twitter
\* inserts, the reddit inserts.
phase_after_insert_follows_search(phase) ==
    CASE phase = "youtube"   -> "yt_insert"
      [] phase = "yt_insert" -> "social"
      [] phase = "twitter"   -> "tw_insert"
      [] phase = "tw_insert" -> "reddit"
      [] phase = "reddit"    -> "rd_insert"
      [] OTHER -> "next"

phase_after(phase) ==
    CASE phase = "youtube"   -> "yt_insert"
      [] phase = "yt_insert" -> "social"
      [] phase = "twitter"   -> "reddit"
      [] phase = "reddit"    -> "tw_insert"
      [] phase = "tw_insert" -> "rd_insert"
      [] OTHER -> "next"

\* The end of "for query in queries": the sort and the truncation.
collected(r) ==
    LET out == IF r.pc = "youtube" THEN finish("youtube", r.all, cmd_max_results(r.cmd))
               ELSE Truncate(r.all, cmd_max_results(r.cmd))
    IN  [r EXCEPT !.found[r.pc] = out,
                  !.due = @ \o [k \in 1..Len(out) |->
                                   [subject |-> r.i, provider |-> r.pc, what |-> out[k].key]],
                  !.all = <<>>, !.seen = {}]

\* The start of a loop: over the query variants, or over the records found.
enter(r, phase) ==
    [r EXCEPT !.pc = phase, !.q = 1,
              !.queue = IF phase \in InsertPhases THEN r.found[provider_of(phase)] ELSE <<>>]

NothingFound == [p \in QueryPhases |-> <<>>]

\* The statements between two calls: the end of a loop, the tests of the "if"
\* blocks and their prints, the step to the next shoe.
RECURSIVE settle(_)
settle(r) ==
    CASE r.pc = "youtube" /\ "youtube" \notin r.srcs -> settle(enter(r, "social"))
      [] r.pc \in QueryPhases /\ r.q > Len(CmdQueries(r.pc)) ->
             settle(enter(collected(r), phase_after(r.pc)))
      [] r.pc \in InsertPhases /\ r.queue = <<>> -> settle(enter(r, phase_after(r.pc)))
      [] r.pc = "social" ->
             IF "social" \in r.srcs /\ r.serper THEN settle(enter(r, "twitter"))
             ELSE IF "social" \in r.srcs /\ r.cmd = "collect"
                  THEN settle([enter(r, "next") EXCEPT
                                   !.diag = @ \cup {CmdDiag(r, "social", "skipped")}])
                  ELSE settle(enter(r, "next"))
      [] r.pc = "next" ->
             IF r.i < Len(r.todo)
             THEN settle([enter(r, "youtube") EXCEPT !.i = r.i + 1, !.found = NothingFound])
             ELSE [r EXCEPT !.pc = "done"]
      [] OTHER -> r

InitCmd ==
    /\ \E n \in 1..MaxSubjects : shoes = StoredShoes(n) /\ nextId = n + 1
    /\ sources = {}
    /\ pc = [p \in Clients |-> "idle"] /\ cur = [p \in Clients |-> Idle] /\ log = <<>>
    /\ agg = AggIdle /\ fn = FnIdle
    /\ \E cmd \in {"collect", "collect_all"},
          srcs \in {{"youtube"}, {"youtube", "social"}, {"social"}},
          serper \in BOOLEAN, ytkey \in BOOLEAN :
       \E arg \in IF cmd = "collect" THEN 1..MaxSubjects ELSE {None} :
           run = [pc |-> "start", cmd |-> cmd, srcs |-> srcs, serper |-> serper,
                  ytkey |-> ytkey, arg |-> arg, todo |-> <<>>, i |-> 0, q |-> 1,
                  all |-> <<>>, seen |-> {}, found |-> NothingFound,
                  queue |-> <<>>, trace |-> <<>>, due |-> <<>>, diag |-> {}, faults |-> 0,
                  rows |-> {}, total_collected |-> 0]

\* get_all_shoes(), then the shoe of cmd_collect or shoes[:limit] of cmd_collect_all
CmdStart(reachable, limit) ==
    /\ run.pc = "start"
    /\ LET all == get_all_shoes(shoes, reachable)
           todo == IF run.cmd = "collect" THEN find_shoe(all, run.arg)
                   ELSE Truncate(all, cmd_limit(limit))
           r == [run EXCEPT !.todo = todo, !.i = 1,
                            !.diag = IF reachable THEN @
                                     ELSE @ \cup {[subject |-> 0, provider |-> "store",
                                                   what |-> "unreachable"]}]
       IN  IF todo = <<>>
           THEN run' = [r EXCEPT !.pc = "done",
                                 !.diag = @ \cup {[subject |-> 0, provider |-> "store",
                                                   what |-> "no_shoe"]}]
           ELSE run' = settle([r EXCEPT !.pc = "youtube"])
    /\ UNCHANGED <<shoes, sources, nextId, pc, cur, log, agg, fn>>

\* one iteration of "for query in queries": the adapter call and the merge
ProviderQuery(videos, failed) ==
    /\ run.pc \in QueryPhases
    /\ failed => run.faults < MaxCmdFaults
    /\ LET provider == run.pc
           configured == KeyConfigured(run, provider)
           got == IF configured /\ ~failed THEN videos ELSE <<>>
           acc == merge([all |-> run.all, seen |-> run.seen], got)
           what == IF ~configured THEN "missing_key" ELSE "provider_error"
       IN  run' = settle([run EXCEPT
                     !.trace = Append(@, Event("call", run, provider, run.q, configured /\ ~failed)),
                     !.diag = IF configured /\ ~failed THEN @
                              ELSE @ \cup {CmdDiag(run, provider, what)},
                     !.faults = IF failed THEN @ + 1 ELSE @,
                     !.all = acc.all, !.seen = acc.seen, !.q = @ + 1])
    /\ UNCHANGED <<shoes, sources, nextId, pc, cur, log, agg, fn>>

\* "for video in videos:" goes on to the next record whatever the call returned
next_record_retry(queue, fail) == IF fail THEN queue ELSE Tail(queue)

next_record(queue, fail) == Tail(queue)

\* one iteration of a loop over the records: create_curated_source(...)
OfferRecord(fail) ==
    /\ run.pc \in InsertPhases
    /\ fail => run.faults < MaxCmdFaults
    /\ LET provider == provider_of(run.pc)
           rec == Head(run.queue)
           res == create_curated_source(sources, nextId, run.todo[run.i].id, rec.key,
                                        RunPayload(provider), fail)
       IN  /\ sources' = res.sources
           /\ nextId' = IF res.ret # None THEN nextId + 1 ELSE nextId
           /\ run' = settle([run EXCEPT
                         !.queue = next_record(@, fail),
                         !.trace = Append(@, Event("offer", run, provider, rec.key,
                                                   res.ret # None)),
                         !.diag = IF fail THEN @ \cup {CmdDiag(run, provider, "store_error")}
                                  ELSE @,
                         !.rows = @ \cup (res.sources \ sources),
                         !.total_collected = IF res.ret # None THEN @ + 1 ELSE @,
                         !.faults = IF fail THEN @ + 1 ELSE @])
    /\ UNCHANGED <<shoes, pc, cur, log, agg, fn>>

\* the process is stopped between two inserts; nothing catches it
Interrupt ==
    /\ run.pc \in InsertPhases
    /\ run' = [run EXCEPT !.pc = "interrupted"]
    /\ UNCHANGED <<shoes, sources, nextId, pc, cur, log, agg, fn>>

NextCmd ==
    \/ \E reachable \in BOOLEAN, limit \in 0..MaxSubjects : CmdStart(reachable, limit)
    \/ \E videos \in CmdResponses(run.pc, run.q), failed \in BOOLEAN :
           ProviderQuery(videos, failed)
    \/ \E fail \in BOOLEAN : OfferRecord(fail)
    \/ Interrupt

SpecCmd == InitCmd /\ [][NextCmd]_vars

(***************************************************************************)
(* The persistence operations of db_handler.py called one after another by *)
(* one pipeline instance, connection by connection                         *)
(***************************************************************************)
MaxDbCalls == 3      \* persistence operations called in one behaviour

Primitives ==
    {"get_all_shoes", "get_shoe_by_brand_model", "create_shoe",
     "create_curated_source", "get_curated_sources_for_shoe"}

DbOps == Primitives \cup {"ensure_shoe_exists"}

ListOps == {"get_all_shoes", "get_curated_sources_for_shoe"}

\* The sources offered: url, and source_type, platform, title and reliability
\* (in hundredths) as cmd_collect passes them for a video and for a tweet
DbSources ==
    {[url |-> "u1", pay |-> [source_type |-> "VIDEO", platform |-> "youtube.com",
                             title |-> "t1", reliability |-> 80]],
     [url |-> "u2", pay |-> [source_type |-> "SNS", platform |-> "twitter.com",
                             title |-> "t2", reliability |-> 65]]}

NoArgs ==
    [brand |-> "", model_name |-> "", shoe_id |-> None, url |-> "",
     pay |-> [source_type |-> "", platform |-> "", title |-> "", reliability |-> 0]]

\* The arguments a caller passes; shoe identities are taken from rows of the store.
DbArgs(op, sh) ==
    CASE op = "get_all_shoes" -> {NoArgs}
      [] op \in {"get_shoe_by_brand_model", "create_shoe", "ensure_shoe_exists"} ->
             {[NoArgs EXCEPT !.brand = "Nike", !.model_name = "Peg"]}
      [] op = "create_curated_source" ->
             {[NoArgs EXCEPT !.shoe_id = s.id, !.url = d.url, !.pay = d.pay] :
                 s \in sh, d \in DbSources}
      [] OTHER -> {[NoArgs EXCEPT !.shoe_id = s.id] : s \in sh}

\* INSERT INTO "curatedSources" (...) VALUES (..., 'PUBLISHED', ..., NOW(), NOW())
insert_curated_source_draft(src, id, a) ==
    src \cup {[id |-> id, shoeId |-> a.shoe_id, type |-> a.pay.source_type,
               platform |-> a.pay.platform, title |-> a.pay.title, url |-> a.url,
               reliability |-> a.pay.reliability, status |-> "DRAFT", createdAt |-> id]}

insert_curated_source(src, id, a) ==
    src \cup {[id |-> id, shoeId |-> a.shoe_id, type |-> a.pay.source_type,
               platform |-> a.pay.platform, title |-> a.pay.title, url |-> a.url,
               reliability |-> a.pay.reliability, status |-> "PUBLISHED", createdAt |-> id]}

\* SELECT id, type, platform, title, excerpt, url, author, "thumbnailUrl",
\* reliability, "createdAt"; dict(row)
select_source(row) ==
    [id |-> row.id, type |-> row.type, platform |-> row.platform, title |-> row.title,
     url |-> row.url, reliability |-> row.reliability, createdAt |-> row.createdAt]

\* if not conn: return [] / return None
without_connection_raises(op) == [ret |-> None, raised |-> TRUE]

without_connection(op) ==
    [ret |-> IF op \in ListOps THEN <<>> ELSE None, raised |-> FALSE]

\* finally: conn.close()
close_on_success_only(conns, path) == IF path = "ok" THEN conns - 1 ELSE conns

finally_close(conns, path) == conns - 1

\* The try block of an operation, with its except branches: the store after
\* it, the value returned and the path taken.
\* fault: a statement raises an exception other than the uniqueness violation;
\* raced: another instance inserts the same (shoe, URL) after the duplicate check.
Outcome(sh, src, id, ret, path) ==
    [shoes |-> sh, sources |-> src, nextId |-> id, ret |-> ret, path |-> path]

try_block(op, a, sh, src, id, fault, raced) ==
    CASE fault ->
             {Outcome(sh, src, id, IF op \in ListOps THEN <<>> ELSE None, "failure")}
      [] ~fault /\ op = "get_all_shoes" -> {Outcome(sh, src, id, newest_first(sh), "ok")}
      [] ~fault /\ op = "get_shoe_by_brand_model" ->
             LET existing == get_shoe_by_brand_model(sh, a.brand, a.model_name)
             IN  IF existing = {} THEN {Outcome(sh, src, id, None, "ok")}
                 ELSE {Outcome(sh, src, id, row.id, "ok") : row \in existing}
      [] ~fault /\ op = "create_shoe" ->
             IF ShoesUniqueViolation(sh, a.brand, a.model_name)
             THEN {Outcome(sh, src, id, None, "unique_violation")}
             ELSE {Outcome(insert_shoe(sh, id, a.brand, a.model_name), src, id + 1, id, "ok")}
      [] ~fault /\ op = "create_curated_source" ->
             IF find_source(src, a.url, a.shoe_id) # {}
             THEN {Outcome(sh, src, id, None, "duplicate")}
             ELSE IF raced
             THEN {Outcome(sh, insert_curated_source(src, id, a), id + 1, None,
                           "unique_violation")}
             ELSE {Outcome(sh, insert_curated_source(src, id, a), id + 1, id, "ok")}
      [] OTHER ->
             {Outcome(sh, src, id, [i \in 1..Len(rows) |-> select_source(rows[i])], "ok") :
                 rows \in order_by(where(src, a.shoe_id))}

DbIdle ==
    [op |-> "", sub |-> "", pc |-> "idle", args |-> NoArgs, n |-> 0, conns |-> 0,
     opened |-> 0, total |-> 0, ret |-> None, path |-> "", wrote |-> FALSE,
     anywrote |-> FALSE]

\* A completed operation: what it was called with and what the caller sees.
DbEntry(f, op, ret, raised, path, opened, wrote) ==
    [op |-> op, within |-> IF op = f.op THEN "" ELSE f.op, args |-> f.args,
     path |-> path, ret |-> ret, raised |-> raised, opened |-> opened,
     open |-> f.conns, wrote |-> wrote, n |-> f.n]

\* The primitive operation returns; ensure_shoe_exists goes on:
\*   existing = get_shoe_by_brand_model(...); if existing: return existing['id']
\*   return create_shoe(...)
returned(f, lg, ret, raised, path) ==
    LET lg1 == Append(lg, DbEntry(f, f.sub, ret, raised, path, f.opened, f.wrote))
        back == [f EXCEPT !.op = "", !.sub = "", !.pc = IF raised THEN "crashed" ELSE "idle",
                          !.args = NoArgs, !.opened = 0, !.total = 0, !.ret = None,
                          !.path = "", !.wrote = FALSE, !.anywrote = FALSE]
    IN  IF f.op # "ensure_shoe_exists" THEN [fn |-> back, log |-> lg1]
        ELSE IF f.sub = "get_shoe_by_brand_model" /\ ret = None /\ ~raised
        THEN [fn |-> [f EXCEPT !.sub = "create_shoe", !.pc = "connect", !.opened = 0,
                               !.path = "", !.wrote = FALSE],
              log |-> lg1]
        ELSE [fn |-> back,
              log |-> Append(lg1, DbEntry(f, f.op, ret, raised, path, f.total, f.anywrote))]

InitDb ==
    /\ shoes = {} /\ sources = {} /\ nextId = 1
    /\ pc = [p \in Clients |-> "idle"] /\ cur = [p \in Clients |-> Idle] /\ log = <<>>
    /\ agg = AggIdle /\ run = RunIdle
    /\ fn = DbIdle

\* the caller calls an operation
DbCall(op, a) ==
    /\ fn.pc = "idle" /\ fn.n < MaxDbCalls
    /\ fn' = [fn EXCEPT !.op = op, !.args = a, !.n = @ + 1, !.pc = "connect",
                        !.sub = IF op = "ensure_shoe_exists"
                                THEN "get_shoe_by_brand_model" ELSE op]
    /\ UNCHANGED <<shoes, sources, nextId, pc, cur, log, agg, run>>

\* conn = get_db_connection(); if not conn: return ...
DbConnect(reachable) ==
    /\ fn.pc = "connect"
    /\ IF get_db_connection(reachable)
       THEN /\ fn' = [fn EXCEPT !.pc = "try", !.conns = @ + 1, !.opened = @ + 1,
                                !.total = @ + 1]
            /\ UNCHANGED log
       ELSE LET r == without_connection(fn.sub)
                next == returned(fn, log, r.ret, r.raised, "no_connection")
            IN  fn' = next.fn /\ log' = next.log
    /\ UNCHANGED <<shoes, sources, nextId, pc, cur, agg, run>>

\* try: ... except ...: the statements up to the return
DbTry(fault, raced) ==
    /\ fn.pc = "try"
    /\ \E o \in try_block(fn.sub, fn.args, shoes, sources, nextId, fault, raced) :
           /\ shoes' = o.shoes /\ sources' = o.sources /\ nextId' = o.nextId
           /\ fn' = [fn EXCEPT !.pc = "finally", !.ret = o.ret, !.path = o.path,
                               !.wrote = o.path = "ok" /\ (o.shoes # shoes \/ o.sources # sources),
                               !.anywrote = @ \/ (o.path = "ok"
                                                  /\ (o.shoes # shoes \/ o.sources # sources))]
    /\ UNCHANGED <<pc, cur, log, agg, run>>

\* finally: conn.close(); the value goes to the caller
DbFinally ==
    /\ fn.pc = "finally"
    /\ LET f == [fn EXCEPT !.conns = finally_close(@, fn.path)]
           next == returned(f, log, fn.ret, FALSE, fn.path)
       IN  fn' = next.fn /\ log' = next.log
    /\ UNCHANGED <<shoes, sources, nextId, pc, cur, agg, run>>

NextDb ==
    \/ \E op \in DbOps : \E a \in DbArgs(op, shoes) : DbCall(op, a)
    \/ \E reachable \in BOOLEAN : DbConnect(reachable)
    \/ \E fault \in BOOLEAN, raced \in BOOLEAN : DbTry(fault, raced)
    \/ DbFinally

SpecDb == InitDb /\ [][NextDb]_vars

(***************************************************************************)
(* cmd_shoes_import: the predefined subjects, one ensure_shoe_exists each  *)
(***************************************************************************)
MaxImport == 3       \* subjects of the predefined list in the model

\* POPULAR_MODELS: distinct (brand, model) pairs
ImportModels ==
    <<<<"Nike", "Peg">>, <<"Asics", "Gel">>, <<"Adidas", "Boston">>, <<"Hoka", "Clifton">>>>

get_shoes_from_predefined_list == SubSeq(ImportModels, 1, MaxImport)

\* existing = get_shoe_by_brand_model(...); if existing: return existing['id'];
\* return create_shoe(...).  fail: the store calls of this call fail.
ensure_shoe_exists(sh, id, brand, model_name, fail) ==
    IF fail THEN [shoes |-> sh, id |-> None] ELSE shoes_add(sh, id, brand, model_name)

\* The branch cmd_shoes_import takes for one subject, given what
\* ensure_shoe_exists and the lookup after it returned.
import_label(shoe_id, existing) ==
    IF shoe_id = None THEN "failed"
    ELSE IF existing # {} /\ \E row \in existing : row.id = shoe_id THEN "added"
    ELSE "skipped"

InitImport ==
    /\ \E pre \in SUBSET (1..MaxImport) :
           shoes = {[id |-> i, brand |-> ImportModels[i][1],
                     modelName |-> ImportModels[i][2]] : i \in pre}
    /\ sources = {} /\ nextId = MaxImport + 1
    /\ pc = [p \in Clients |-> "idle"] /\ cur = [p \in Clients |-> Idle] /\ log = <<>>
    /\ agg = AggIdle /\ fn = FnIdle
    /\ run = [pc |-> "import", k |-> 1, added |-> 0, skipped |-> 0, before |-> shoes,
              seen |-> <<>>]

\* one iteration of "for shoe in shoes"
ImportShoe(fail, fail_lookup) ==
    /\ run.pc = "import" /\ run.k <= Len(get_shoes_from_predefined_list)
    /\ LET shoe == get_shoes_from_predefined_list[run.k]
           res == ensure_shoe_exists(shoes, nextId, shoe[1], shoe[2], fail)
           existing == IF fail_lookup THEN {}
                       ELSE get_shoe_by_brand_model(res.shoes, shoe[1], shoe[2])
           label == import_label(res.id, existing)
       IN  /\ shoes' = res.shoes
           /\ nextId' = IF res.shoes # shoes THEN nextId + 1 ELSE nextId
           /\ run' = [run EXCEPT
                         !.k = @ + 1,
                         !.added = IF label = "added" THEN @ + 1 ELSE @,
                         !.skipped = IF label = "skipped" THEN @ + 1 ELSE @,
                         !.seen = Append(@, [brand |-> shoe[1], model_name |-> shoe[2],
                                             shoe_id |-> res.id, label |-> label,
                                             created |-> res.shoes # shoes])]
    /\ UNCHANGED <<sources, pc, cur, log, agg, fn>>

\* print(f'完了: 追加 {added} 件, スキップ {skipped} 件')
ImportEnd ==
    /\ run.pc = "import" /\ run.k > Len(get_shoes_from_predefined_list)
    /\ run' = [run EXCEPT !.pc = "done"]
    /\ UNCHANGED <<shoes, sources, nextId, pc, cur, log, agg, fn>>

NextImport ==
    \/ \E fail \in BOOLEAN, fail_lookup \in BOOLEAN : ImportShoe(fail, fail_lookup)
    \/ ImportEnd

SpecImport == InitImport /\ [][NextImport]_vars

(***************************************************************************)
(* Properties of the persistence gateway (checked under Spec)              *)
(***************************************************************************)
Entries == {log[i] : i \in 1..Len(log)}

\* Case-insensitive equality of two natural keys.
SameSubject(b1, m1, b2, m2) == Lower(b1) = Lower(b2) /\ Lower(m1) = Lower(m2)

RowsOfSubject(brand, model_name) ==
    {s \in shoes : SameSubject(s.brand, s.modelName, brand, model_name)}

RowsOfSource(shoe_id, url) == {r \in sources : r.shoeId = shoe_id /\ r.url = url}

\* Calls i < j of ensure_shoe_exists with the same pair, store reachable, no other writer.
EnsureTwice(i, j) ==
    /\ i < j
    /\ log[i].op = "ensure" /\ log[j].op = "ensure"
    /\ log[i].brand = log[j].brand /\ log[i].model = log[j].model
    /\ log[i].ok /\ log[j].ok
    /\ log[i].solo /\ log[j].solo

\* C1: any two calls of ensure_shoe_exists with the same (brand, model), made with
\* the store reachable and no other writer, return the same non-null identity, and
\* the shoes table then holds exactly one row for the pair (the row so identified).
C1_EnsureIdempotent ==
    \A i, j \in 1..Len(log) :
        EnsureTwice(i, j) =>
            /\ log[i].ret # None
            /\ log[j].ret = log[i].ret
            /\ \E row \in shoes :
                   /\ row.id = log[i].ret
                   /\ RowsOfSubject(log[i].brand, log[i].model) = {row}

C1_Witness ==
    \E i, j \in 1..Len(log) : EnsureTwice(i, j) /\ log[i].wrote /\ ~log[j].wrote

\* C2: a caller of ensure_shoe_exists whose lookup saw the row absent and whose
\* insert hit the uniqueness violation gets the identity of the existing row,
\* never none.
C2_RaceLoserGetsIdentity ==
    \A e \in Entries :
        (e.op = "ensure" /\ e.ok /\ ~e.existed /\ e.raced) =>
            /\ e.ret # None
            /\ \E row \in RowsOfSubject(e.brand, e.model) : row.id = e.ret

SourceTwice(i, j) ==
    /\ i < j
    /\ log[i].op = "ccs" /\ log[j].op = "ccs"
    /\ log[i].shoe = log[j].shoe /\ log[i].url = log[j].url
    /\ log[i].ok /\ log[j].ok
    /\ log[i].solo /\ log[j].solo
    /\ ~log[i].existed

\* C4: create_curated_source called twice with the same (shoe identity, URL) inserts
\* exactly one row: the first call returns the new row's identity, the second none.
C4_SourceTwiceOneRow ==
    \A i, j \in 1..Len(log) :
        SourceTwice(i, j) =>
            /\ log[i].ret # None /\ log[i].wrote
            /\ log[j].ret = None /\ ~log[j].wrote
            /\ \E row \in sources :
                   /\ row.id = log[i].ret
                   /\ RowsOfSource(log[i].shoe, log[i].url) = {row}

C4_Witness ==
    \E i, j \in 1..Len(log) : SourceTwice(i, j) /\ log[i].pay = log[j].pay

\* C5: a create_curated_source call that completes while a row for its
\* (shoe identity, URL) is present returns none and leaves the whole curatedSources
\* table unchanged, whatever title, author, excerpt, reliability or metadata it carries.
C5_Step ==
    (/\ Len(log') = Len(log) + 1
     /\ log'[Len(log')].op = "ccs"
     /\ RowsOfSource(log'[Len(log')].shoe, log'[Len(log')].url) # {})
        => (sources' = sources /\ log'[Len(log')].ret = None)

C5_DuplicateWritesNothing == [][C5_Step]_vars

C5_Witness ==
    \E e \in Entries :
        /\ e.op = "ccs" /\ e.ok /\ e.existed
        /\ \E row \in RowsOfSource(e.shoe, e.url) :
               /\ row.title # e.pay.title /\ row.author # e.pay.author
               /\ row.excerpt # e.pay.excerpt /\ row.reliability # e.pay.reliability
               /\ row.metadata # e.pay.metadata

\* C6: under every interleaving of concurrent create_curated_source calls the
\* curatedSources table holds at most one row per (shoe identity, URL).
C6_OneRowPerSourceKey ==
    \A r1, r2 \in sources :
        (r1.shoeId = r2.shoeId /\ r1.url = r2.url) => r1 = r2

\* Both duplicate checks passed before either insert committed.
C6_Witness ==
    \E e \in Entries :
        /\ e.op = "ccs" /\ e.ok /\ ~e.existed /\ e.raced /\ ~e.solo
        /\ RowsOfSource(e.shoe, e.url) # {}

\* C7: a storage uniqueness violation on an insert of a source or a subject yields
\* none, adds no row, and is never printed as an error-level diagnostic.
C7_ViolationNotAnError ==
    \A e \in Entries :
        e.raced =>
            /\ e.ret = None
            /\ ~e.wrote
            /\ \A d \in e.diag : d.cause = "unique_violation" => d.level # "error"

(***************************************************************************)
(* Properties of the aggregators (checked under SpecAgg)                   *)
(***************************************************************************)
Elems(s) == {s[i] : i \in 1..Len(s)}

\* The query variants, in formulation order, whose response holds the key.
VariantsWith(key) ==
    {q \in 1..Len(agg.resp) : \E j \in 1..Len(agg.resp[q]) : agg.resp[q][j].key = key}

\* C8: of the records that share a natural key, the aggregator keeps the one
\* returned by the earliest query variant, unchanged; later occurrences never
\* replace it or any of its fields, in the accumulated list and in the result.
C8_FirstSeenWins ==
    /\ \A i, j \in 1..Len(agg.all) : agg.all[i].key = agg.all[j].key => i = j
    /\ \A x \in Elems(agg.all) :
           /\ x.variant \in VariantsWith(x.key)
           /\ \A q \in VariantsWith(x.key) : x.variant <= q
           /\ x \in Elems(agg.resp[x.variant])
    /\ Elems(agg.out) \subseteq Elems(agg.all)

C8_Witness ==
    /\ agg.pc = "done"
    /\ \E x \in Elems(agg.out) :
           \E q \in VariantsWith(x.key) :
               /\ q > x.variant
               /\ \E y \in Elems(agg.resp[q]) : y.key = x.key /\ y.metric # x.metric

\* Popularity of a video record: the view count, a missing one counting as zero.
Popularity(x) == IF x.metric = NoMetric THEN 0 ELSE x.metric

\* Position of a record of the result in discovery order.
Discovery(x) == CHOOSE i \in 1..Len(agg.all) : agg.all[i] = x

\* x is ranked before y: more popular, or equally popular and discovered earlier.
RankedBefore(x, y) ==
    \/ Popularity(x) > Popularity(y)
    \/ Popularity(x) = Popularity(y) /\ Discovery(x) < Discovery(y)

\* C9: the result of the video aggregator is the accumulated records in
\* non-increasing popularity (missing metric = 0), equal popularity in discovery
\* order, cut to the first max_results records of that order.
C9_SortedStableTruncated ==
    (agg.pc = "done" /\ agg.provider = "youtube") =>
        /\ Len(agg.out) = Min2(agg.max_results, Len(agg.all))
        /\ Elems(agg.out) \subseteq Elems(agg.all)
        /\ \A i, j \in 1..Len(agg.out) : i < j => RankedBefore(agg.out[i], agg.out[j])
        /\ \A x \in Elems(agg.out) :
               \A y \in Elems(agg.all) \ Elems(agg.out) : RankedBefore(x, y)

\* The sort reorders, the cut drops a record, and a missing count ties with a zero.
C9_Witness ==
    /\ agg.pc = "done" /\ agg.provider = "youtube"
    /\ Len(agg.out) < Len(agg.all)
    /\ agg.out # SubSeq(agg.all, 1, Len(agg.out))
    /\ \E x \in Elems(agg.out) :
           \E y \in Elems(agg.all) :
               x.metric = NoMetric /\ y.metric = 0 /\ Discovery(x) < Discovery(y)

VideoBudget(max_results) == Min2(max_results \div 2, 50)

KeysOf(s) == {s[i].key : i \in 1..Len(s)}

\* A record as the sort sees it: natural key and popularity metric.
Ranked(s) == [i \in 1..Len(s) |-> <<s[i].key, s[i].metric>>]

\* C11 as stated: permuting the order of the query variants leaves the set of
\* natural keys of the final result unchanged.
C11_SameResultKeys ==
    fn.op = "aggregate" => KeysOf(fn.base.out) = KeysOf(fn.perm.out)

\* C11 amended: permuting the order of the query variants leaves the set of
\* natural keys accumulated by the merge unchanged, and the keys of the final
\* result too whenever the distinct keys do not exceed max_results; and two
\* accumulated lists with the same metrics in the same discovery order give the
\* same sorted and truncated sequence, whatever else their records carry.
C11_MergeKeysOrderFree ==
    fn.op = "aggregate" =>
        /\ KeysOf(fn.base.all) = KeysOf(fn.perm.all)
        /\ Cardinality(KeysOf(fn.base.all)) <= fn.max_results =>
               KeysOf(fn.base.out) = KeysOf(fn.perm.out)
        /\ Ranked(fn.base.all) = Ranked(fn.perm.all) =>
               Ranked(fn.base.out) = Ranked(fn.perm.out)

\* A reordering that changes the discovery order but not the surviving keys, and
\* one key kept from different variants in the two runs.
C11_Witness ==
    /\ fn.op = "aggregate"
    /\ Cardinality(KeysOf(fn.base.all)) = fn.max_results
    /\ Ranked(fn.base.all) # Ranked(fn.perm.all)
    /\ \E x \in Elems(fn.base.all), y \in Elems(fn.perm.all) :
           x.key = y.key /\ x.variant # y.variant

(***************************************************************************)
(* Properties of the video aggregator (checked under SpecVideo)            *)
(***************************************************************************)
\* The distinct natural keys returned across the three query variants.
ReturnedKeys == UNION {KeysOf(fn.resp[q]) : q \in 1..Len(fn.resp)}

\* C12: the result of the video aggregator holds no natural key twice, only
\* returned keys, all of them when they fit, has length
\* min(number of distinct keys, max_results) and is sorted descending by view count.
C12_DistinctSortedLength ==
    fn.op = "search_shoe_reviews" =>
        /\ \A i, j \in 1..Len(fn.res.out) : fn.res.out[i].key = fn.res.out[j].key => i = j
        /\ KeysOf(fn.res.out) \subseteq ReturnedKeys
        /\ Len(fn.res.out) = Min2(Cardinality(ReturnedKeys), fn.max_results)
        /\ Cardinality(ReturnedKeys) <= fn.max_results => KeysOf(fn.res.out) = ReturnedKeys
        /\ NonIncreasing([i \in 1..Len(fn.res.out) |-> Popularity(fn.res.out[i])])

\* Six raw items across three variants, two of them duplicates: four records.
C12_Witness ==
    /\ fn.op = "search_shoe_reviews"
    /\ \A q \in 1..3 : Len(fn.resp[q]) = 2
    /\ Cardinality(ReturnedKeys) = 4
    /\ Len(fn.res.out) = 4
    /\ fn.res.out # fn.res.all

(***************************************************************************)
(* Properties of the provider adapters (checked under SpecAdapter)         *)
(***************************************************************************)
Adapters == {"search_youtube_videos", "search_serper", "search_tweets", "search_reddit_posts"}

\* C13: a call of a provider adapter whose provider call failed (transport
\* error, timeout, non-2xx status, rate limit, malformed item) returns the
\* empty sequence and does not raise.
C13_FailedCallReturnsEmpty ==
    (fn.op \in Adapters /\ fn.configured /\ fn.failed) =>
        (fn.ret = <<>> /\ ~fn.raised)

\* The search call succeeded and the statistics call of the same
\* search_youtube_videos call failed.
EnrichmentFailed ==
    /\ fn.op = "search_youtube_videos" /\ fn.configured
    /\ ~HttpFailed(fn.response)
    /\ HttpFailed(fn.stats)

BaseRecordsKept ==
    /\ Len(fn.ret) = Len(fn.response.items)
    /\ \A i \in 1..Len(fn.ret) :
           /\ fn.ret[i].key = fn.response.items[i].key
           /\ fn.ret[i].title = fn.response.items[i].title

\* C14 as stated: after a failed enrichment every base record is returned
\* unchanged and its popularity metric is zero.
C14_EnrichFailureMetricZero ==
    EnrichmentFailed =>
        (BaseRecordsKept /\ \A i \in 1..Len(fn.ret) : fn.ret[i].metric = 0)

\* C14: after a failed enrichment every base record is returned unchanged and
\* its view count is still missing (None), which the sort key of the video
\* aggregator counts as zero.
C14_EnrichFailureMetricMissing ==
    EnrichmentFailed =>
        /\ ~fn.raised
        /\ BaseRecordsKept
        /\ \A i \in 1..Len(fn.ret) :
               fn.ret[i].metric = NoMetric /\ view_key(fn.ret[i]) = 0

C14_Witness ==
    /\ EnrichmentFailed
    /\ fn.stats.exc = "Timeout"
    /\ Len(fn.ret) = 2
    /\ fn.ret[1].key # fn.ret[2].key

\* What community i contributes: the submissions it yields under the limit
\* floor(max_results / number of communities), up to the first failure.
Contribution(i) ==
    appended(Truncate(fn.listings[i].items, fn.max_results \div Len(fn.listings)))

\* C26: search_reddit_posts queries each given community with the limit
\* floor(max_results / number of communities); it returns at most max_results
\* posts, the highest-scored of what the communities contributed, by score
\* descending; a community whose query fails does not remove what the others
\* contributed; without credentials the result is empty.
C26_BudgetSplitAcrossCommunities ==
    fn.op = "search_reddit_posts" =>
        /\ ~fn.raised
        /\ ~fn.configured => fn.ret = <<>>
        /\ (fn.configured /\ fn.subreddits) =>
               LET got == Contribution(1) \o Contribution(2)
                   left(x) == Cardinality({k \in 1..Len(got) : got[k] = x})
                              - Cardinality({k \in 1..Len(fn.ret) : fn.ret[k] = x})
               IN  /\ Len(fn.ret) = Min2(fn.max_results, Len(got))
                   /\ NonIncreasing([k \in 1..Len(fn.ret) |-> fn.ret[k].metric])
                   /\ \A k \in 1..Len(fn.ret) : left(fn.ret[k]) >= 0
                   /\ \A k \in 1..Len(got) :
                          left(got[k]) > 0 =>
                              \A j \in 1..Len(fn.ret) : fn.ret[j].metric >= got[k].metric

\* The first community's query fails, the second yields two submissions, and
\* with max_results = 3 only one of them is returned.
C26_Witness ==
    /\ fn.op = "search_reddit_posts" /\ fn.configured /\ fn.subreddits
    /\ fn.max_results = 3
    /\ fn.listings[1].exc # "none"
    /\ Len(Contribution(2)) = 1 /\ Len(fn.listings[2].items) = 2
    /\ fn.ret = Contribution(2)

(***************************************************************************)
(* Properties of the web-search adapters and the URL extractors            *)
(* (checked under SpecWeb)                                                 *)
(***************************************************************************)
WebSearches == {"search_twitter_posts", "search_reddit_posts_via_web"}

\* The hosts of the platform a web-search adapter collects from.
HostsOf(call) == IF call = "search_twitter_posts" THEN TwitterHosts ELSE {s_reddit_com}

\* The positions of fn.results that hold a content page of the platform not
\* seen at an earlier position.
ContentHits ==
    {i \in 1..Len(fn.results) :
        /\ fn.results[i].wf
        /\ fn.results[i].kind = "permalink"
        /\ \E h \in HostsOf(fn.call) : Contains(fn.results[i].link, s_https \o h \o s_slash)
        /\ \A j \in 1..(i - 1) : fn.results[j].link # fn.results[i].link}

\* C15: a web-search adapter returns one record per distinct content-page hit
\* of its platform, in the order of the hits and at most max_results of them,
\* and no record for a homepage, search page, hashtag page or listing; the
\* records of search_twitter_posts have platform 'twitter' and post_type 'tweet'.
C15_OnlyContentPages ==
    (fn.op \in WebSearches /\ ~fn.raised) =>
        LET content == ContentHits
        IN  /\ Len(fn.ret) = Min2(Cardinality(content), fn.max_results)
            /\ \A k \in 1..Len(fn.ret) :
                   /\ \E i \in content :
                          /\ fn.ret[k].url = fn.results[i].link
                          /\ Cardinality({j \in content : j < i}) = k - 1
                   /\ fn.op = "search_twitter_posts" =>
                          (fn.ret[k].platform = "twitter" /\ fn.ret[k].post_type = "tweet")
                   /\ fn.op = "search_reddit_posts_via_web" =>
                          (fn.ret[k].platform = "reddit" /\ fn.ret[k].post_type = "reddit_post")

\* Five hits, two of them non-content pages: exactly three records.
C15_Witness ==
    /\ fn.op = "search_twitter_posts" /\ ~fn.raised
    /\ Len(fn.results) = 5
    /\ Cardinality({i \in 1..5 : fn.results[i].wf /\ fn.results[i].kind \in {"homepage", "search", "hashtag"}}) = 2
    /\ Cardinality(ContentHits) = 3
    /\ Len(fn.ret) = 3
    /\ \A k \in 1..3 : fn.ret[k].platform = "twitter" /\ fn.ret[k].post_type = "tweet"

NonContent == {"homepage", "search", "hashtag", "reserved"}

\* C16: the extractors return an empty result for every non-content URL of
\* their platform (homepage, search page with or without a query string,
\* hashtag page, reserved path segment) and the author handle / community
\* name for a permalink.
C16_ExtractorsRejectNonContent ==
    /\ (fn.op = "extract_twitter_username" /\ fn.page \in TwitterPages) =>
           /\ fn.page.kind \in NonContent => fn.ret = <<>>
           /\ fn.page.kind = "permalink" => fn.ret = fn.page.handle
    /\ (fn.op = "extract_reddit_info" /\ fn.page \in RedditPages) =>
           /\ fn.page.kind \in NonContent => fn.ret.subreddit = <<>>
           /\ fn.page.kind = "permalink" => fn.ret.subreddit = fn.page.handle

(***************************************************************************)
(* Properties of the query formulation (checked under SpecQuery)           *)
(***************************************************************************)
Bare == <<fn.brand, " ", fn.model_name>>

\* C17 as stated: the list includes the bare 'brand model' string, and has
\* exactly 3 variants for the video provider and 2 for every other provider.
C17_BareAndTwoForCommunity ==
    fn.op = "queries" =>
        \A c \in 1..Len(fn.calls) :
            /\ \E i \in 1..Len(fn.calls[c]) : fn.calls[c][i] = Bare
            /\ Len(fn.calls[c]) = IF fn.provider = "youtube" THEN 3 ELSE 2

\* C17: every query is 'brand model' followed by at most one suffix; the
\* video and the native twitter aggregator use 3 variants, the native reddit
\* and the two web-search aggregators 2; only the native reddit list holds
\* the bare 'brand model' string; a second call for the same subject yields
\* the same ordered list.
C17_QueryLists ==
    fn.op = "queries" =>
        /\ \A c \in 1..Len(fn.calls) :
               /\ Len(fn.calls[c]) = IF fn.provider \in {"youtube", "twitter"} THEN 3 ELSE 2
               /\ \A i \in 1..Len(fn.calls[c]) :
                      /\ SubSeq(fn.calls[c][i], 1, 3) = Bare
                      /\ fn.calls[c][i] # Bare =>
                             /\ Len(fn.calls[c][i]) = 5
                             /\ fn.calls[c][i][4] = " "
                             /\ fn.calls[c][i][5] \in {"rebyu", "review", "haitemita"}
                      /\ \A j \in 1..Len(fn.calls[c]) : fn.calls[c][i] = fn.calls[c][j] => i = j
               /\ (\E i \in 1..Len(fn.calls[c]) : fn.calls[c][i] = Bare) <=> fn.provider = "reddit"
               /\ \E i \in 1..Len(fn.calls[c]) : fn.calls[c][i] = Bare \o <<" ", "review">>
        /\ \A c, d \in 1..Len(fn.calls) : fn.calls[c] = fn.calls[d]

C17_Witness ==
    /\ fn.op = "queries" /\ Len(fn.calls) = 2
    /\ fn.provider = "twitter" /\ Len(fn.calls[2]) = 3
    /\ fn.brand = "Acme" /\ fn.model_name = "Runner X"

(***************************************************************************)
(* Properties of the source listing (checked under SpecRead)               *)
(***************************************************************************)
\* C18: a successful get_curated_sources_for_shoe returns each PUBLISHED row
\* of the given shoe once, no row of another shoe and no row of another
\* status, ordered by reliability descending and, among equal reliability,
\* by creation time descending.
C18_PublishedRowsOrdered ==
    (fn.op = "get_curated_sources_for_shoe" /\ fn.ok) =>
        /\ {fn.ret[i].id : i \in 1..Len(fn.ret)} =
               {r.id : r \in {x \in sources : x.shoeId = fn.shoe_id /\ x.status = "PUBLISHED"}}
        /\ \A i, j \in 1..Len(fn.ret) : fn.ret[i].id = fn.ret[j].id => i = j
        /\ \A i, j \in 1..Len(fn.ret) :
               i < j => \/ fn.ret[i].reliability > fn.ret[j].reliability
                        \/ /\ fn.ret[i].reliability = fn.ret[j].reliability
                           /\ fn.ret[i].createdAt >= fn.ret[j].createdAt

C18_Witness ==
    /\ fn.op = "get_curated_sources_for_shoe" /\ fn.ok
    /\ \E r \in sources : r.shoeId # fn.shoe_id /\ r.status = "PUBLISHED"
    /\ \E r \in sources : r.shoeId = fn.shoe_id /\ r.status = "DRAFT"
    /\ Len(fn.ret) = 2
    /\ fn.ret[1].reliability = fn.ret[2].reliability
    /\ fn.ret[1].createdAt > fn.ret[2].createdAt
    /\ fn.ret[1].id > fn.ret[2].id

(***************************************************************************)
(* Properties of the collection commands (checked under SpecRun)           *)
(***************************************************************************)
\* The URLs the aggregators returned for the providers a run queried.
Retrieved(d) == UNION {{run.res[p][i] : i \in 1..Len(run.res[p])} : p \in d.queried}

\* C19: when the same collection is run again after a first run on an empty
\* store, the providers returning the same records and no store call failing,
\* every later run inserts no row and leaves the store as the first run left
\* it: one shoe row and one source row per retrieved record.
C19_SecondRunInsertsNothing ==
    /\ run.faults = 0 =>
           \A k \in 1..Len(run.done) :
               /\ Cardinality(run.done[k].shoes) = 1
               /\ {r.url : r \in run.done[k].sources} = Retrieved(run.done[k])
               /\ k >= 2 => /\ run.done[k].wrote = 0
                            /\ run.done[k].shoes = run.done[1].shoes
                            /\ run.done[k].sources = run.done[1].sources
    /\ Cardinality(shoes) <= 1
    /\ \A r1, r2 \in sources : (r1.shoeId = r2.shoeId /\ r1.url = r2.url) => r1 = r2

C19_Witness ==
    /\ run.pc = "finished" /\ run.faults = 0
    /\ Len(run.done) >= 2
    /\ run.done[1].wrote = 4
    /\ run.done[2].wrote = 0
    /\ run.done[2].queried = RunProviders
    /\ Cardinality(sources) = 3

\* C20: each collection command prints, for every provider it queried, the
\* number of records of that provider for which create_curated_source
\* returned an identity in that run; records skipped as duplicates are not
\* counted (no store call fails).
C20_ReportsInsertedPerProvider ==
    run.faults = 0 =>
        \A k \in 1..Len(run.done) :
            \A p \in run.done[k].queried :
                run.done[k].printed[p] = run.done[k].inserted[p]
(***************************************************************************)
(* Properties of one collection command (checked under SpecCmd)            *)
(***************************************************************************)
Events == {run.trace[k] : k \in 1..Len(run.trace)}

\* The command ran to its last print and processed at least one shoe.
Completed == run.pc = "done" /\ run.todo # <<>>

Processed == 1..Len(run.todo)

SocialProviders == {"twitter", "reddit"}

\* Every query variant of the provider was issued for shoe i.
FullyQueried(i, provider) ==
    \A q \in 1..Len(CmdQueries(provider)) :
        \E e \in Events : /\ e.kind = "call" /\ e.subject = i
                          /\ e.provider = provider /\ e.what = q

\* C21: when a credential is absent the affected provider is skipped with a
\* diagnostic and the run goes on with the other providers and shoes: in
\* cmd_collect and in cmd_collect_all a missing web-search key leaves the social
\* provider unqueried and prints a diagnostic, and a missing video key makes
\* the video provider yield no record, with a diagnostic.
C21_MissingKeyDiagnosed ==
    Completed =>
        \A i \in Processed :
            /\ ("social" \in run.srcs /\ ~run.serper) =>
                   /\ \A e \in Events :
                          e.subject = i => e.provider \notin SocialProviders
                   /\ \E d \in run.diag :
                          d.subject = i /\ d.provider \in SocialProviders \cup {"social"}
                   /\ ("youtube" \in run.srcs /\ run.ytkey) => FullyQueried(i, "youtube")
            /\ ("youtube" \in run.srcs /\ ~run.ytkey) =>
                   /\ \A e \in Events :
                          (e.subject = i /\ e.provider = "youtube") => e.kind # "offer"
                   /\ \E d \in run.diag :
                          d.subject = i /\ d.provider = "youtube" /\ d.what = "missing_key"
                   /\ ("social" \in run.srcs /\ run.serper) =>
                          FullyQueried(i, "twitter") /\ FullyQueried(i, "reddit")

\* Events k < l of the trace that belong to the same shoe.
SameShoe(k, l) == k < l /\ run.trace[k].subject = run.trace[l].subject

\* Shoe after shoe: no event of a shoe follows an event of a later shoe; and
\* inside one shoe nothing of the video provider follows a social event.
ShoeAfterShoe ==
    /\ \A k, l \in 1..Len(run.trace) :
           k < l => run.trace[k].subject <= run.trace[l].subject
    /\ \A k, l \in 1..Len(run.trace) :
           (SameShoe(k, l) /\ run.trace[l].provider = "youtube")
               => run.trace[k].provider = "youtube"

\* C23 as stated: in cmd_collect_all the shoes are processed strictly one after
\* another, and inside one shoe all video work precedes all social work, all
\* twitter work (calls and inserts) preceding all reddit work.
C23_TwitterWorkBeforeReddit ==
    run.cmd = "collect_all" =>
        /\ ShoeAfterShoe
        /\ \A k, l \in 1..Len(run.trace) :
               (SameShoe(k, l) /\ run.trace[l].provider = "twitter")
                   => run.trace[k].provider # "reddit"

\* Position of an event in the order of the loops inside one shoe.
LoopRank(e) ==
    CASE e.provider = "youtube" /\ e.kind = "call"  -> 1
      [] e.provider = "youtube" /\ e.kind = "offer" -> 2
      [] e.provider = "twitter" /\ e.kind = "call"  -> 3
      [] e.provider = "reddit"  /\ e.kind = "call"  -> 4
      [] e.provider = "twitter" /\ e.kind = "offer" -> 5
      [] OTHER -> 6

InLoopOrder(e1, e2) ==
    \/ e1.subject < e2.subject
    \/ e1.subject = e2.subject /\ LoopRank(e1) <= LoopRank(e2)

\* C23 (amended): in cmd_collect_all the shoes are processed strictly one after
\* another; inside one shoe the video queries and then the video inserts come
\* first, then both social searches (twitter queries, then reddit queries), and
\* only then the social inserts (twitter records, then reddit records).
\* (The order "earlier shoe, or same shoe and no later loop" is transitive, so
\* it holds between any two events once it holds between consecutive ones.)
C23_ShoesThenLoops ==
    run.cmd = "collect_all" =>
        \A k \in 1..(Len(run.trace) - 1) : InLoopOrder(run.trace[k], run.trace[k + 1])

C23_Witness ==
    /\ run.cmd = "collect_all" /\ run.pc = "done" /\ Len(run.todo) = 2
    /\ \A i \in Processed :
           \A n \in 1..6 : \E e \in Events : e.subject = i /\ LoopRank(e) = n

Offers == SelectSeq(run.trace, LAMBDA e : e.kind = "offer")

\* The row a successful insert of the run left in the store.
RowOf(e) ==
    {row \in sources : row.shoeId = run.todo[e.subject].id /\ row.url = e.what}

\* C24: every insert is committed on its own: after a create_curated_source call
\* that failed and rolled back, and after an interruption between two inserts,
\* every row inserted by an earlier call of the run is still in the store,
\* unchanged; and the records behind a failed call are still offered, so a
\* completed run has offered every record it found, in order.
C24_EarlierRowsSurvive ==
    /\ run.rows \subseteq sources
    /\ \A k \in 1..Len(run.trace) :
           (run.trace[k].kind = "offer" /\ run.trace[k].ok)
               => RowOf(run.trace[k]) \cap run.rows # {}
    /\ run.pc = "done" =>
           /\ Len(Offers) = Len(run.due)
           /\ \A k \in 1..Len(run.due) :
                  /\ Offers[k].subject = run.due[k].subject
                  /\ Offers[k].provider = run.due[k].provider
                  /\ Offers[k].what = run.due[k].what

\* An insert succeeded, a later one failed, one after that succeeded, and the
\* run was then interrupted with records still to be offered.
C24_Witness ==
    /\ run.pc = "interrupted" /\ run.queue # <<>>
    /\ \E k1, k2, k3 \in 1..Len(run.trace) :
           /\ k1 < k2 /\ k2 < k3
           /\ run.trace[k1].kind = "offer" /\ run.trace[k1].ok
           /\ run.trace[k2].kind = "offer" /\ ~run.trace[k2].ok
           /\ run.trace[k3].kind = "offer" /\ run.trace[k3].ok

Target(e) == <<e.subject, e.provider, e.what>>

\* C25: nothing is retried: in one run each query variant goes to a provider at
\* most once and each record found is offered to create_curated_source at most
\* once; a provider whose calls all failed contributes no record for that shoe,
\* and a record whose insert failed has no row from this run.
C25_NothingRetried ==
    LET calls == SelectSeq(run.trace, LAMBDA e : e.kind = "call")
        offers == Offers
    IN  /\ Cardinality({Target(calls[k]) : k \in 1..Len(calls)}) = Len(calls)
        /\ Cardinality({Target(offers[k]) : k \in 1..Len(offers)}) = Len(offers)
        /\ \A k \in 1..Len(offers) :
               /\ \E c \in 1..Len(calls) :
                      /\ calls[c].ok
                      /\ calls[c].subject = offers[k].subject
                      /\ calls[c].provider = offers[k].provider
               /\ ~offers[k].ok => RowOf(offers[k]) \cap run.rows = {}

\* A provider call failed and was not repeated: the run ended, every variant
\* was sent once, and the record of the other variants was offered once.
C25_Witness ==
    /\ run.pc = "done"
    /\ \E c \in Events :
           /\ c.kind = "call" /\ ~c.ok /\ KeyConfigured(run, c.provider)
           /\ FullyQueried(c.subject, c.provider)
           /\ \E e \in Events :
                  e.kind = "offer" /\ e.subject = c.subject /\ e.provider = c.provider

(***************************************************************************)
(* Properties of the persistence operations (checked under SpecDb)         *)
(***************************************************************************)
DbEntries == {log[k] : k \in 1..Len(log)}

\* The value an operation returns when it has nothing: [] for the two
\* listings, None for the others.
EmptyResult(op) == IF op \in ListOps THEN <<>> ELSE None

\* A completed call that never got a connection: a primitive operation whose
\* connect failed, or ensure_shoe_exists with both of its connects failed.
Unreachable(e) == e.path = "no_connection" /\ e.opened = 0

\* C22: when the store is unreachable every persistence operation returns its
\* empty result (None for ensure_shoe_exists, create_shoe, create_curated_source
\* and get_shoe_by_brand_model, the empty list for get_all_shoes and
\* get_curated_sources_for_shoe), raises nothing and writes nothing, and the
\* caller goes on: it is never left crashed.
C22_UnreachableReturnsEmpty ==
    /\ fn.pc # "crashed"
    /\ \A e \in DbEntries :
           Unreachable(e) =>
               /\ e.ret = EmptyResult(e.op)
               /\ ~e.raised
               /\ ~e.wrote

\* ensure_shoe_exists found the store unreachable, and the operation called
\* after it, with the store back, completed normally.
C22_Witness ==
    \E i, j \in 1..Len(log) :
        /\ i < j
        /\ log[i].op = "ensure_shoe_exists" /\ Unreachable(log[i])
        /\ log[j].n > log[i].n /\ log[j].path = "ok"
        /\ \E l \in ListOps : \E e \in DbEntries : e.op = l /\ Unreachable(e)

\* Entry i is a create_curated_source call that returned an identity; entry j is
\* a later get_curated_sources_for_shoe for the same shoe that got its
\* connection and did not fail, with no write in between.
CreatedThenListed(i, j) ==
    /\ i < j
    /\ log[i].op = "create_curated_source" /\ log[i].ret # None
    /\ log[j].op = "get_curated_sources_for_shoe" /\ log[j].path = "ok"
    /\ log[j].args.shoe_id = log[i].args.shoe_id
    /\ \A k \in (i + 1)..(j - 1) : ~log[k].wrote /\ log[k].path # "unique_violation"

\* C29: when create_curated_source returns an identity, a following
\* get_curated_sources_for_shoe for the same shoe (store reachable, no write in
\* between) holds exactly one row with that identity, and the row carries the
\* URL, title, type, platform and reliability that were passed in; every row
\* the operations insert has status PUBLISHED.
C29_CreatedRowIsListed ==
    /\ \A i, j \in 1..Len(log) :
           CreatedThenListed(i, j) =>
               LET hits == {k \in 1..Len(log[j].ret) : log[j].ret[k].id = log[i].ret}
               IN  /\ Cardinality(hits) = 1
                   /\ \A k \in hits :
                          /\ log[j].ret[k].url = log[i].args.url
                          /\ log[j].ret[k].title = log[i].args.pay.title
                          /\ log[j].ret[k].type = log[i].args.pay.source_type
                          /\ log[j].ret[k].platform = log[i].args.pay.platform
                          /\ log[j].ret[k].reliability = log[i].args.pay.reliability
    /\ \A row \in sources : row.status = "PUBLISHED"

C29_Witness ==
    \E i, j \in 1..Len(log) : CreatedThenListed(i, j) /\ Len(log[j].ret) > 0

\* C30 as stated: every persistence operation, ensure_shoe_exists included,
\* opens at most one connection and has closed it when it returns, whatever
\* the path; no connection is open between operations.
C30_OneConnectionPerOperation ==
    /\ \A e \in DbEntries : e.opened <= 1 /\ e.open = 0
    /\ fn.pc = "idle" => fn.conns = 0

\* C30 (amended): get_all_shoes, get_shoe_by_brand_model, create_shoe,
\* create_curated_source and get_curated_sources_for_shoe each open at most one
\* connection; ensure_shoe_exists opens up to two, one after the other (the
\* lookup's, closed before create_shoe opens its own). At most one connection
\* is open at any time, every operation has closed what it opened when it
\* returns, on every path, and none is open between operations.
C30_ConnectionsClosed ==
    /\ fn.conns <= 1
    /\ fn.pc = "idle" => fn.conns = 0
    /\ \A e \in DbEntries :
           /\ e.open = 0
           /\ e.op \in Primitives => e.opened <= 1
           /\ e.op = "ensure_shoe_exists" => e.opened <= 2

\* ensure_shoe_exists has opened two connections, and calls have returned on
\* the success, uniqueness-violation and other-failure paths.
C30_Witness ==
    /\ fn.pc = "idle"
    /\ \E e \in DbEntries : e.op = "ensure_shoe_exists" /\ e.opened = 2
    /\ \A p \in {"ok", "unique_violation", "failure"} :
           \E e \in DbEntries : e.path = p /\ e.opened = 1

(***************************************************************************)
(* Properties of the import command (checked under SpecImport)             *)
(***************************************************************************)
\* The subject had a row in the store before the import started.
ExistedBefore(s) == get_shoe_by_brand_model(run.before, s.brand, s.model_name) # {}

\* C27: cmd_shoes_import counts a predefined subject as "skipped (existing)"
\* exactly when a row for it was in the store before the import started, and as
\* "added" exactly when this import created the row; added + skipped is the
\* number of subjects for which ensure_shoe_exists returned an identity.
C27_SkippedIffExisting ==
    /\ \A k \in 1..Len(run.seen) :
           /\ run.seen[k].label = "skipped" <=> ExistedBefore(run.seen[k])
           /\ run.seen[k].label = "added" <=> run.seen[k].created
    /\ run.added + run.skipped
           = Cardinality({k \in 1..Len(run.seen) : run.seen[k].shoe_id # None})

====
